---------------------------- MODULE Spec2Model ----------------------------
(***************************************************************************)
(* docsai: the background ingestion manager (docsai/ingestion_manager.py). *)
(*                                                                         *)
(* One IngestionManager singleton holds the task registry `tasks`, the     *)
(* reference `active_task` and one daemon worker thread per started task.  *)
(* The API handlers (start_ingestion, get_task_status, get_active_task,    *)
(* cancel_task) run on the server thread; every worker runs               *)
(* _run_ingestion and is interleaved with the handlers and with the other  *)
(* workers at every access to a shared field.                              *)
(*                                                                         *)
(* Two specifications:                                                     *)
(*   Spec         one ingestion run: the state right after start_ingestion *)
(*                registered a task, for every profile and every source    *)
(*                config, then its worker interleaved with cancel_task;    *)
(*   SpecManager  the registry: up to MaxTasks start_ingestion calls over  *)
(*                the profiles, interleaved with cancel_task and with the  *)
(*                workers, for profiles whose source lists nothing to      *)
(*                ingest (local, no local_paths) and whose index is empty. *)
(*                                                                         *)
(* Conventions of the model                                                *)
(*   - task ids are the integers 1, 2, ... in the order uuid4 hands them   *)
(*     out (uuid4 values are distinct); NoTask (0) is Python's None where  *)
(*     a task reference is expected;                                       *)
(*   - progress is kept in thousandths (700 is 0.7, 1000 is 1.0);          *)
(*   - timestamps are kept as "None" or "set";                             *)
(*   - current_file (a display string) is not modelled;                    *)
(*   - all_chunks is kept as one run per document, [file, first, count]:   *)
(*     the count chunk records of the document, the first of them created  *)
(*     when len(all_chunks) was first; a collection's ids are kept as      *)
(*     ranges [file, first, lo, hi] of such a run, the ids of its chunks   *)
(*     lo..hi.  ChunkRecords and Ids give the records and the ids.         *)
(***************************************************************************)
EXTENDS Integers, Sequences, FiniteSets, TLC

(***************************************************************************)
(* Bounds of the model.                                                    *)
(***************************************************************************)
MaxTasks == 3        \* start_ingestion calls that create a task
MaxAllowed == 2      \* allowed_paths entries of a web source at most
MaxLocalPaths == 1   \* local_paths entries of a local source at most
MaxFiles == 2        \* work items of one run at most

Profiles == {"pA", "pB"}
Urls == {"u1", "u2"}
\* local files as <<directory, file name>>, in scan_directory's sorted order
LocalFiles == << <<"d1", "a.txt">>, <<"d2", "a.txt">> >>
\* number of chunks the chunker may return for one document
ChunkCounts == {1, 101}
\* embedding dimensions of the configurable models
Dims == {1, 2}

NoTask == 0
batch_size == 100

Terminal == {"COMPLETED", "FAILED", "CANCELLED"}
Cancellable == {"SCANNING", "PROCESSING", "INDEXING"}

VARIABLES
    tasks,        \* IngestionManager.tasks: task id -> IngestionTask
    active_task,  \* IngestionManager.active_task: a task id or NoTask
    worker,       \* task id -> the locals of the thread running _run_ingestion
    coll,         \* profile -> the "docs" collection of the profile's index
    ret,          \* the last start_ingestion or cancel_task call and its result
    hist,         \* task id -> what has happened to the task so far (history)
    returned,     \* the ids start_ingestion has returned so far (history)
    rerun,        \* two ingestion runs of one profile, one after the other
    robots_cache, \* ingest._robots_cache: domain key -> parsed robots.txt
    cache_dir,    \* the page cache on disk: url -> html
    web,          \* the answers of the site to the GETs made so far
    cw,           \* the locals of the crawl_website call under way
    net,          \* what the crawler has asked of network and cache (history)
    document_metadata, \* table document_metadata of ingestion_metadata.db
    change_log,   \* table change_log of ingestion_metadata.db
    sc,           \* the locals of the scan_for_changes call under way
    dc,           \* a categorize_document call: its arguments and its result
    ck,           \* a call of a chunker: its arguments and its result
    chroma,       \* the "docs" collection search reads: ids, documents, metadatas
    sr,           \* the locals of the search call under way
    im,           \* the chunk records _run_ingestion builds and upserts
    rt,           \* the threads inside _robots_allowed and the GETs they made
    up            \* the index, the pages and the locals of update_only_changed

manager == <<tasks, active_task, worker, coll, ret, hist, returned>>
crawler == <<robots_cache, cache_dir, web, cw, net>>
updater == <<document_metadata, change_log, sc>>
retrieval == <<chroma, sr>>
later == <<rt, up>>
components == <<updater, dc, ck, retrieval, im, later>>
vars == <<manager, rerun, crawler, components>>

(***************************************************************************)
(* IngestionTask                                                           *)
(***************************************************************************)
IngestionTask(task_id, profile_name) ==
    [id               |-> task_id,
     profile_name     |-> profile_name,
     status           |-> "IDLE",
     progress         |-> 0,
     total_files      |-> 0,
     processed_files  |-> 0,
     total_chunks     |-> 0,
     indexed_chunks   |-> 0,
     errors           |-> <<>>,
     warnings         |-> <<>>,
     start_time       |-> "None",
     end_time         |-> "None",
     stats            |-> <<>>,
     cancel_requested |-> FALSE]

to_dict(task) ==
    [id              |-> task.id,
     profile_name    |-> task.profile_name,
     status          |-> task.status,
     progress        |-> task.progress,
     total_files     |-> task.total_files,
     processed_files |-> task.processed_files,
     total_chunks    |-> task.total_chunks,
     indexed_chunks  |-> task.indexed_chunks,
     errors          |-> task.errors,
     warnings        |-> task.warnings,
     start_time      |-> task.start_time,
     end_time        |-> task.end_time,
     duration        |-> IF task.end_time # "None" /\ task.start_time # "None"
                         THEN "set" ELSE "None",
     stats           |-> task.stats]

(***************************************************************************)
(* The source section of a profile's config, as _run_ingestion reads it:   *)
(* the type, how many allowed_paths and local_paths it lists and whether   *)
(* the keys the scan needs are there (a missing key raises KeyError).      *)
(***************************************************************************)
Configs ==
    { c \in [type : {"web", "local", "mixed"}, allowed : 0..MaxAllowed,
             local_paths : 0..MaxLocalPaths, dim : Dims] :
        /\ c.type = "web" => c.local_paths = 0      \* never read
        /\ c.type = "local" => c.allowed = 0 }      \* never read

\* configs of profiles with nothing to ingest
EmptyConfigs == { c \in Configs : c.type = "local" /\ c.local_paths = 0 /\ c.dim = 1 }

WorkerLocals(config) ==
    [pc         |-> "prepare",
     config     |-> config,
     crawl      |-> 0,       \* number of the crawl_website call under way
     out        |-> <<>>,    \* crawl_website's out, in insertion order
     raw        |-> <<>>,    \* raw, in insertion order
     lp         |-> 0,       \* local paths scanned
     all_files  |-> <<>>,
     i          |-> 0,       \* index of the work item loop
     all_chunks |-> <<>>,
     b          |-> 0]       \* start of the batch loop's slice

\* _hash: SHA-1 of the text, as 40 hex digits; [:8] keeps the first 8
_hash(text) == <<"sha1", text>>
_hash8(text) == <<"sha1[:8]", text>>

\* filename of a work item: the URL of a page, Path(path).name of a local file
Filename(file_info) ==
    IF file_info.type = "web" THEN file_info.path ELSE file_info.path[2]

\* text of the k-th chunk the chunker cuts from the document at path
ChunkText(path, k) == <<"chunk", path, k>>

chunk_id(filename, n, text) == <<_hash(filename), n, _hash8(text)>>

\* the chunk records (lines 347-351) of a run of all_chunks
ChunkRecords(run) ==
    [j \in 1..run.count |->
        [id   |-> chunk_id(Filename(run.file), run.first + j - 1,
                           ChunkText(run.file.path, j)),
         text |-> ChunkText(run.file.path, j)]]

\* len(all_chunks)
ChunkLen(all_chunks) ==
    IF all_chunks = <<>> THEN 0
    ELSE all_chunks[Len(all_chunks)].first + all_chunks[Len(all_chunks)].count

\* the ids a set of ranges stands for
Ids(ranges) ==
    UNION { { ChunkRecords([file |-> r.file, first |-> r.first, count |-> r.hi])[j].id :
                j \in r.lo..r.hi } : r \in ranges }

\* history of one task: work items its worker took up, work items it
\* finished, batches it upserted, collections it deleted, and the statuses
\* in which cancel_task accepted a request
NoHist == [items |-> 0, finished |-> 0, upserts |-> 0, deletes |-> 0,
           cancelled_in |-> {}]

EmptyColl == [ids |-> {}, dim |-> 0]
\* a collection left in the profile's chroma directory by an earlier process
OldColl ==
    [ids |-> {[file |-> [type |-> "web", path |-> "old"], first |-> 0, lo |-> 1, hi |-> 1]},
     dim |-> 1]

\* no second run, no crawl: the state of rerun and of the crawler's
\* variables in the specifications that are about neither
NoRerun ==
    [items |-> << <<>>, <<>> >>, run |-> 0, k |-> 0, all_chunks |-> << <<>>, <<>> >>,
     b |-> 0, ids |-> {}, index1 |-> {}]

NoCrawl ==
    /\ robots_cache = <<>>
    /\ cache_dir = <<>>
    /\ web = <<>>
    /\ cw = [pc |-> "none"]
    /\ net = [gets |-> <<>>]

NoScan ==
    /\ document_metadata = <<>>
    /\ change_log = <<>>
    /\ sc = [pc |-> "none"]

NoCategorize == dc = [pc |-> "none"]

NoChunk == ck = [pc |-> "none"]

NoSearch == chroma = <<>> /\ sr = [pc |-> "none"]

NoRecords == im = [pc |-> "none"]

NoLater == rt = [pc |-> "none"] /\ up = [pc |-> "none"]

NoComponents == NoScan /\ NoCategorize /\ NoChunk /\ NoSearch /\ NoRecords /\ NoLater

\* IngestionManager.__init__ (lines 76-83), every index empty
InitManager ==
    /\ rerun = NoRerun
    /\ NoCrawl
    /\ NoComponents
    /\ tasks = <<>>
    /\ active_task = NoTask
    /\ worker = <<>>
    /\ coll = [p \in Profiles |-> EmptyColl]
    /\ ret = [op |-> "none"]
    /\ hist = <<>>
    /\ returned = {}

(***************************************************************************)
(* API handlers                                                            *)
(***************************************************************************)
start_ingestion(profile_name, config) ==
    IF /\ active_task # NoTask
       /\ tasks[active_task].profile_name = profile_name
       /\ tasks[active_task].status \notin Terminal
    THEN /\ ret' = [op |-> "start_ingestion", profile |-> profile_name,
                    task_id |-> active_task]
         /\ returned' = returned \cup {active_task}
         /\ UNCHANGED <<tasks, active_task, worker, coll, hist, rerun, crawler, components>>
    ELSE LET task_id == Cardinality(DOMAIN tasks) + 1
             task == [IngestionTask(task_id, profile_name) EXCEPT
                        !.status = "PREPARING", !.start_time = "set"]
         IN /\ task_id <= MaxTasks
            /\ config \in Configs
            /\ tasks' = tasks @@ (task_id :> task)
            /\ active_task' = task_id
            /\ worker' = worker @@ (task_id :> WorkerLocals(config))
            /\ hist' = hist @@ (task_id :> NoHist)
            /\ ret' = [op |-> "start_ingestion", profile |-> profile_name,
                       task_id |-> task_id]
            /\ returned' = returned \cup {task_id}
            /\ UNCHANGED <<coll, rerun, crawler, components>>

StartIngestion == \E p \in Profiles, c \in EmptyConfigs : start_ingestion(p, c)

\* cancel_task as it would be if it took a task in any running status
cancel_task_while_preparing(task_id) ==
    IF task_id \in DOMAIN tasks /\ tasks[task_id].status \notin Terminal
    THEN /\ tasks' = [tasks EXCEPT ![task_id].cancel_requested = TRUE]
         /\ ret' = [op |-> "cancel_task", id |-> task_id, ok |-> TRUE]
         /\ hist' = [hist EXCEPT ![task_id].cancelled_in = @ \cup {tasks[task_id].status}]
         /\ UNCHANGED <<active_task, worker, coll, returned, rerun, crawler, components>>
    ELSE /\ ret' = [op |-> "cancel_task", id |-> task_id, ok |-> FALSE]
         /\ UNCHANGED <<tasks, active_task, worker, coll, hist, returned, rerun, crawler, components>>

\* lines 120-126
cancel_task(task_id) ==
    IF task_id \in DOMAIN tasks /\ tasks[task_id].status \in Cancellable
    THEN /\ tasks' = [tasks EXCEPT ![task_id].cancel_requested = TRUE]
         /\ ret' = [op |-> "cancel_task", id |-> task_id, ok |-> TRUE]
         /\ hist' = [hist EXCEPT ![task_id].cancelled_in = @ \cup {tasks[task_id].status}]
         /\ UNCHANGED <<active_task, worker, coll, returned, rerun, crawler, components>>
    ELSE /\ ret' = [op |-> "cancel_task", id |-> task_id, ok |-> FALSE]
         /\ UNCHANGED <<tasks, active_task, worker, coll, hist, returned, rerun, crawler, components>>

\* for every registered id and one that is not
CancelTask == \E id \in 1..(Cardinality(DOMAIN tasks) + 1) : cancel_task(id)


\* get_task_status as it would be if finished tasks were not reported
get_task_status_running_only(task_id) ==
    IF task_id \in DOMAIN tasks /\ tasks[task_id].status \notin Terminal
    THEN [found |-> TRUE, dict |-> to_dict(tasks[task_id])]
    ELSE [found |-> FALSE]

get_task_status(task_id) ==
    IF task_id \in DOMAIN tasks
    THEN [found |-> TRUE, dict |-> to_dict(tasks[task_id])]
    ELSE [found |-> FALSE]

get_active_task ==
    IF active_task # NoTask
    THEN [found |-> TRUE, dict |-> to_dict(tasks[active_task])]
    ELSE [found |-> FALSE]

(***************************************************************************)
(* The worker thread: _run_ingestion(task, config), one action per stretch *)
(* of code between two accesses to state another thread reads or writes.   *)
(***************************************************************************)
Running(t) == t \in DOMAIN worker /\ worker[t].pc # "done"

Range(s) == { s[k] : k \in 1..Len(s) }

\* lines 130-158: imports, profile_paths, parser, embedder, client, collection
Prepare(t) ==
    /\ Running(t) /\ worker[t].pc = "prepare"
    /\ tasks' = [tasks EXCEPT ![t].status = "PREPARING"]
    /\ worker' = [worker EXCEPT ![t].pc = "dimcheck"]
    /\ UNCHANGED <<active_task, coll, ret, hist, returned, rerun, crawler, components>>

\* lines 161-176, the embedding dimension check: the collection holds
\* vectors of another dimension than the embedder's
Mismatch(t) ==
    LET c == coll[tasks[t].profile_name]
    IN c.ids # {} /\ c.dim # worker[t].config.dim

\* count() = 0, or the dimensions agree
DimCheckSame(t) ==
    /\ Running(t) /\ worker[t].pc = "dimcheck"
    /\ ~Mismatch(t)
    /\ worker' = [worker EXCEPT ![t].pc = "set_scanning"]
    /\ UNCHANGED <<tasks, active_task, coll, ret, hist, returned, rerun, crawler, components>>

\* the mismatch as it would be if it were an error of the run
DimCheckResetFatal(t) ==
    /\ Running(t) /\ worker[t].pc = "dimcheck"
    /\ Mismatch(t)
    /\ tasks' = [tasks EXCEPT ![t].status = "FAILED",
                              ![t].warnings = Append(@, "Embedding dimension mismatch")]
    /\ worker' = [worker EXCEPT ![t].pc = "except"]
    /\ UNCHANGED <<active_task, coll, ret, hist, returned, rerun, crawler, components>>

\* lines 169-174: the collection is deleted and created again
DimCheckReset(t) ==
    /\ Running(t) /\ worker[t].pc = "dimcheck"
    /\ Mismatch(t)
    /\ tasks' = [tasks EXCEPT ![t].warnings = @ \o
           <<"Embedding dimension mismatch",
             "Clearing existing collection due to dimension mismatch...",
             "Created new collection with correct dimensions">>]
    /\ coll' = [coll EXCEPT ![tasks[t].profile_name] = EmptyColl]
    /\ hist' = [hist EXCEPT ![t].deletes = @ + 1]
    /\ worker' = [worker EXCEPT ![t].pc = "set_scanning"]
    /\ UNCHANGED <<active_task, ret, returned, rerun, crawler, components>>

\* lines 175-176: an exception of the check is dropped, here one of count(),
\* peek() or encode(), before any warning
DimCheckRaises(t) ==
    /\ Running(t) /\ worker[t].pc = "dimcheck"
    /\ coll[tasks[t].profile_name].ids # {}
    /\ worker' = [worker EXCEPT ![t].pc = "set_scanning"]
    /\ UNCHANGED <<tasks, active_task, coll, ret, hist, returned, rerun, crawler, components>>

\* lines 175-176: here delete_collection raises, after two warnings
DimCheckDeleteRaises(t) ==
    /\ Running(t) /\ worker[t].pc = "dimcheck"
    /\ Mismatch(t)
    /\ tasks' = [tasks EXCEPT ![t].warnings = @ \o
           <<"Embedding dimension mismatch",
             "Clearing existing collection due to dimension mismatch...">>]
    /\ worker' = [worker EXCEPT ![t].pc = "set_scanning"]
    /\ UNCHANGED <<active_task, coll, ret, hist, returned, rerun, crawler, components>>

\* lines 175-176: here get_or_create_collection raises at line 173, after
\* the collection was deleted
DimCheckCreateRaises(t) ==
    /\ Running(t) /\ worker[t].pc = "dimcheck"
    /\ Mismatch(t)
    /\ tasks' = [tasks EXCEPT ![t].warnings = @ \o
           <<"Embedding dimension mismatch",
             "Clearing existing collection due to dimension mismatch...">>]
    /\ coll' = [coll EXCEPT ![tasks[t].profile_name] = EmptyColl]
    /\ hist' = [hist EXCEPT ![t].deletes = @ + 1]
    /\ worker' = [worker EXCEPT ![t].pc = "set_scanning"]
    /\ UNCHANGED <<active_task, ret, returned, rerun, crawler, components>>

NCrawls(config) == IF config.allowed = 0 THEN 1 ELSE config.allowed

\* where the scan goes on after the web part (or without one)
AfterWeb(config) ==
    IF config.type \in {"local", "mixed"} /\ config.local_paths > 0
    THEN "local" ELSE "scan_end"

\* lines 179-191: status SCANNING, source type read
SetScanning(t) ==
    /\ Running(t) /\ worker[t].pc = "set_scanning"
    /\ tasks' = [tasks EXCEPT ![t].status = "SCANNING"]
    /\ worker' = [worker EXCEPT
          ![t].pc = IF worker[t].config.type \in {"web", "mixed"}
                    THEN "crawl" ELSE AfterWeb(worker[t].config),
          ![t].crawl = IF worker[t].config.type \in {"web", "mixed"} THEN 1 ELSE 0]
    /\ UNCHANGED <<active_task, coll, ret, hist, returned, rerun, crawler, components>>

\* crawl_website adds one page to out and calls on_page(url, len(out)),
\* which is _crawl_progress (lines 193-195)
CrawlPage(t) ==
    /\ Running(t) /\ worker[t].pc = "crawl"
    /\ \E url \in Urls \ Range(worker[t].out) :
         /\ Cardinality(Range(worker[t].raw) \cup Range(worker[t].out) \cup {url})
               <= MaxFiles
         /\ worker' = [worker EXCEPT ![t].out = Append(@, url)]
         /\ tasks' = [tasks EXCEPT ![t].processed_files = Len(worker[t].out) + 1]
    /\ UNCHANGED <<active_task, coll, ret, hist, returned, rerun, crawler, components>>

\* dict.update: new keys go to the end, known keys keep their place
DictUpdate(raw, out) == raw \o SelectSeq(out, LAMBDA u : u \notin Range(raw))

WebItems(raw) == [k \in 1..Len(raw) |-> [type |-> "web", path |-> raw[k]]]

\* crawl_website returns (lines 198-213): raw.update, the next allowed
\* path, and after the last one the pages become work items
CrawlReturn(t) ==
    LET w == worker[t]
        raw == DictUpdate(w.raw, w.out)
    IN
    /\ Running(t) /\ w.pc = "crawl"
    /\ worker' =
         IF w.crawl < NCrawls(w.config)
         THEN [worker EXCEPT ![t].raw = raw, ![t].out = <<>>, ![t].crawl = @ + 1]
         ELSE [worker EXCEPT ![t].raw = raw, ![t].out = <<>>,
                             ![t].all_files = WebItems(raw),
                             ![t].pc = AfterWeb(w.config)]
    /\ UNCHANGED <<tasks, active_task, coll, ret, hist, returned, rerun, crawler, components>>

\* scan_directory's result: the files of a directory, sorted
Listing(S) == SelectSeq(LocalFiles, LAMBDA f : f \in S)

LocalItems(files) == [k \in 1..Len(files) |-> [type |-> "local", path |-> files[k]]]

\* lines 220-239: one local path
LocalPath(t) ==
    LET w == worker[t]
        nxt == IF w.lp + 1 < w.config.local_paths THEN "local" ELSE "scan_end"
    IN
    /\ Running(t) /\ w.pc = "local"
    /\ \/ \* the path does not exist
          /\ tasks' = [tasks EXCEPT ![t].warnings = Append(@, "Path does not exist")]
          /\ worker' = [worker EXCEPT ![t].lp = @ + 1, ![t].pc = nxt]
       \/ \* a file, or a directory and its files
          /\ \E S \in SUBSET Range(LocalFiles) :
               /\ Len(w.all_files) + Cardinality(S) <= MaxFiles
               /\ worker' = [worker EXCEPT
                     ![t].all_files = @ \o LocalItems(Listing(S)),
                     ![t].lp = @ + 1, ![t].pc = nxt]
          /\ UNCHANGED tasks
    /\ UNCHANGED <<active_task, coll, ret, hist, returned, rerun, crawler, components>>

\* line 241
ScanEnd(t) ==
    /\ Running(t) /\ worker[t].pc = "scan_end"
    /\ tasks' = [tasks EXCEPT ![t].total_files = Len(worker[t].all_files)]
    /\ worker' = [worker EXCEPT ![t].pc = "check_scan"]
    /\ UNCHANGED <<active_task, coll, ret, hist, returned, rerun, crawler, components>>

\* the cancellation checkpoints that are followed by a status change:
\* lines 244-246 (then PROCESSING) and lines 367-369 (then INDEXING)
CheckCancelled(t, at, goon) ==
    /\ Running(t) /\ worker[t].pc = at
    /\ IF tasks[t].cancel_requested
       THEN /\ tasks' = [tasks EXCEPT ![t].status = "CANCELLED"]
            /\ worker' = [worker EXCEPT ![t].pc = "done"]
       ELSE /\ worker' = [worker EXCEPT ![t].pc = goon]
            /\ UNCHANGED tasks
    /\ UNCHANGED <<active_task, coll, ret, hist, returned, rerun, crawler, components>>

\* the scan without a cancellation check after it
CheckAfterScanMissing(t) ==
    /\ Running(t) /\ worker[t].pc = "check_scan"
    /\ worker' = [worker EXCEPT ![t].pc = "set_processing"]
    /\ UNCHANGED <<tasks, active_task, coll, ret, hist, returned, rerun, crawler, components>>

CheckAfterScan(t) == CheckCancelled(t, "check_scan", "set_processing")

\* lines 249-251
SetProcessing(t) ==
    /\ Running(t) /\ worker[t].pc = "set_processing"
    /\ tasks' = [tasks EXCEPT ![t].status = "PROCESSING"]
    /\ worker' = [worker EXCEPT ![t].pc = "next_item", ![t].i = 0]
    /\ UNCHANGED <<active_task, coll, ret, hist, returned, rerun, crawler, components>>


\* the chunk records numbered on from the number of chunks in the collection
NewChunksAfterIndex(all_chunks, file_info, count) ==
    << [file |-> file_info,
        first |-> ChunkLen(all_chunks) + Cardinality(Ids(rerun.ids)),
        count |-> count] >>

\* lines 301-351: the chunk records of one document, appended to all_chunks
NewChunks(all_chunks, file_info, count) ==
    << [file |-> file_info, first |-> ChunkLen(all_chunks), count |-> count] >>

\* progress while processing item i of n (line 260), in thousandths
ProcessingProgress(i, n) == (i * 700) \div n

\* the head of the work item loop, lines 253-260, and after the last item
\* line 364
NextItem(t) ==
    LET w == worker[t]
        n == Len(w.all_files)
    IN
    /\ Running(t) /\ w.pc = "next_item"
    /\ IF w.i >= n
       THEN /\ tasks' = [tasks EXCEPT ![t].total_chunks = ChunkLen(w.all_chunks)]
            /\ worker' = [worker EXCEPT ![t].pc = "check_proc"]
            /\ UNCHANGED hist
       ELSE IF tasks[t].cancel_requested
       THEN /\ tasks' = [tasks EXCEPT ![t].status = "CANCELLED"]
            /\ worker' = [worker EXCEPT ![t].pc = "done"]
            /\ UNCHANGED hist
       ELSE /\ tasks' = [tasks EXCEPT ![t].processed_files = w.i + 1,
                                      ![t].progress = ProcessingProgress(w.i, n)]
            /\ worker' = [worker EXCEPT ![t].pc = "item"]
            /\ hist' = [hist EXCEPT ![t].items = @ + 1]
    /\ UNCHANGED <<active_task, coll, ret, returned, rerun, crawler, components>>

\* the handler of the per-item guard as it would be around the whole loop:
\* the error is recorded and the loop is left
ItemRaisesLeavesLoop(t) ==
    /\ tasks' = [tasks EXCEPT ![t].errors =
           Append(@, <<"Error processing", worker[t].all_files[worker[t].i + 1].path>>)]
    /\ worker' = [worker EXCEPT ![t].pc = "next_item",
                                ![t].i = Len(worker[t].all_files)]

\* the loop body without its guard: the exception reaches the outer handler
ItemRaisesUnguarded(t) ==
    /\ tasks' = [tasks EXCEPT ![t].status = "FAILED"]
    /\ worker' = [worker EXCEPT ![t].pc = "except"]

\* lines 361-362: an exception inside the per-item guard
ItemRaises(t) ==
    /\ tasks' = [tasks EXCEPT ![t].errors =
           Append(@, <<"Error processing", worker[t].all_files[worker[t].i + 1].path>>)]
    /\ worker' = [worker EXCEPT ![t].pc = "next_item", ![t].i = @ + 1]

\* the guarded body of the loop, lines 262-362, for item all_files[i]
ProcessItem(t) ==
    LET w == worker[t]
        file_info == w.all_files[w.i + 1]
    IN
    /\ Running(t) /\ w.pc = "item"
    /\ hist' = [hist EXCEPT ![t].finished = @ + 1]
    /\ \/ \* lines 270-272: the parser returns no content
          /\ file_info.type = "local"
          /\ tasks' = [tasks EXCEPT ![t].warnings =
                          Append(@, <<"Failed to parse", file_info.path>>)]
          /\ worker' = [worker EXCEPT ![t].pc = "next_item", ![t].i = @ + 1]
       \/ \* lines 276-277: less than 100 characters of content
          /\ worker' = [worker EXCEPT ![t].pc = "next_item", ![t].i = @ + 1]
          /\ UNCHANGED tasks
       \/ ItemRaises(t)
       \/ \* lines 279-359: categorised, chunked, the chunk records appended
          /\ \E count \in ChunkCounts :
               worker' = [worker EXCEPT
                   ![t].all_chunks = @ \o NewChunks(@, file_info, count),
                   ![t].pc = "next_item", ![t].i = @ + 1]
          /\ UNCHANGED tasks
    /\ UNCHANGED <<active_task, coll, ret, returned, rerun, crawler, components>>

CheckAfterProcessing(t) == CheckCancelled(t, "check_proc", "set_indexing")

\* line 372
SetIndexing(t) ==
    /\ Running(t) /\ worker[t].pc = "set_indexing"
    /\ tasks' = [tasks EXCEPT ![t].status = "INDEXING"]
    /\ worker' = [worker EXCEPT ![t].pc = "next_batch", ![t].b = 0]
    /\ UNCHANGED <<active_task, coll, ret, hist, returned, rerun, crawler, components>>

\* the head of the batch loop as it would be with a rollback: a cancelled run
\* deletes the chunks it has upserted
NextBatchRollback(t) ==
    LET w == worker[t]
        p == tasks[t].profile_name
        mine == { r \in coll[p].ids : \E k \in 1..Len(w.all_chunks) :
                    r.file = w.all_chunks[k].file /\ r.first = w.all_chunks[k].first }
    IN
    /\ Running(t) /\ w.pc = "next_batch"
    /\ IF w.b >= ChunkLen(w.all_chunks)
       THEN /\ tasks' = [tasks EXCEPT ![t].status = "COMPLETED"]
            /\ worker' = [worker EXCEPT ![t].pc = "completed"]
            /\ UNCHANGED <<coll, hist>>
       ELSE IF tasks[t].cancel_requested
       THEN /\ tasks' = [tasks EXCEPT ![t].status = "CANCELLED"]
            /\ worker' = [worker EXCEPT ![t].pc = "done"]
            /\ coll' = [coll EXCEPT ![p].ids = @ \ mine]
            /\ hist' = [hist EXCEPT ![t].deletes = @ + 1]
       ELSE /\ worker' = [worker EXCEPT ![t].pc = "batch"]
            /\ UNCHANGED <<tasks, coll, hist>>
    /\ UNCHANGED <<active_task, ret, returned, rerun, crawler, components>>

\* the head of the batch loop, lines 374-380, and after the last batch
\* (or with no chunk at all) line 406
NextBatch(t) ==
    LET w == worker[t] IN
    /\ Running(t) /\ w.pc = "next_batch"
    /\ IF w.b >= ChunkLen(w.all_chunks)
       THEN /\ tasks' = [tasks EXCEPT ![t].status = "COMPLETED"]
            /\ worker' = [worker EXCEPT ![t].pc = "completed"]
       ELSE IF tasks[t].cancel_requested
       THEN /\ tasks' = [tasks EXCEPT ![t].status = "CANCELLED"]
            /\ worker' = [worker EXCEPT ![t].pc = "done"]
       ELSE /\ worker' = [worker EXCEPT ![t].pc = "batch"]
            /\ UNCHANGED tasks
    /\ UNCHANGED <<active_task, coll, ret, hist, returned, rerun, crawler, components>>

Min(a, b) == IF a <= b THEN a ELSE b
Max(a, b) == IF a >= b THEN a ELSE b

\* all_chunks[from:upto], as ranges of the runs
Slice(all_chunks, from, upto) ==
    { r \in { [file  |-> all_chunks[k].file,
               first |-> all_chunks[k].first,
               lo    |-> Max(1, from - all_chunks[k].first + 1),
               hi    |-> Min(all_chunks[k].count, upto - all_chunks[k].first)] :
             k \in 1..Len(all_chunks) } :
        r.lo <= r.hi }

\* progress after a batch with indexing weighted 0.3
IndexingProgressToOne(indexed, n) == 700 + (indexed * 300) \div n

\* progress after a batch (line 400), in thousandths
IndexingProgress(indexed, n) == 700 + (indexed * 250) \div n

\* lines 382-400: one batch embedded and upserted; the store takes vectors
\* of the collection's dimension only
UpsertBatch(t) ==
    LET w == worker[t]
        p == tasks[t].profile_name
        n == ChunkLen(w.all_chunks)
        upto == Min(w.b + batch_size, n)
        ids == Slice(w.all_chunks, w.b, upto)
    IN
    /\ Running(t) /\ w.pc = "batch"
    /\ coll[p].ids = {} \/ coll[p].dim = w.config.dim
    /\ coll' = [coll EXCEPT ![p] = [ids |-> coll[p].ids \cup ids, dim |-> w.config.dim]]
    /\ tasks' = [tasks EXCEPT ![t].indexed_chunks = upto,
                              ![t].progress = IndexingProgress(upto, n)]
    /\ worker' = [worker EXCEPT ![t].pc = "next_batch", ![t].b = @ + batch_size]
    /\ hist' = [hist EXCEPT ![t].upserts = @ + 1]
    /\ UNCHANGED <<active_task, ret, returned, rerun, crawler, components>>

\* lines 407-425
Complete(t) ==
    LET task == tasks[t] IN
    /\ Running(t) /\ worker[t].pc = "completed"
    /\ tasks' = [tasks EXCEPT
          ![t].progress = 1000,
          ![t].end_time = "set",
          ![t].stats = [total_files     |-> task.total_files,
                        processed_files |-> task.processed_files,
                        total_chunks    |-> task.total_chunks,
                        indexed_chunks  |-> task.indexed_chunks,
                        errors_count    |-> Len(task.errors),
                        warnings_count  |-> Len(task.warnings)]]
    /\ worker' = [worker EXCEPT ![t].pc = "done"]
    /\ UNCHANGED <<active_task, coll, ret, hist, returned, rerun, crawler, components>>

\* as RaisingPcs, if the statistics of lines 410-425 could raise as well
RaisingPcsWithStats == {"prepare", "crawl", "local", "batch", "completed"}

\* where a call outside the per-item guard can raise: the set-up of lines
\* 130-158, crawl_website and the config reads, scan_directory, and
\* encode / upsert
RaisingPcs == {"prepare", "crawl", "local", "batch"}

\* the exception with no handler around the run: the thread ends
FatalUncaught(t) ==
    /\ Running(t) /\ worker[t].pc \in RaisingPcs
    /\ worker' = [worker EXCEPT ![t].pc = "done"]
    /\ UNCHANGED <<tasks, active_task, coll, ret, hist, returned, rerun, crawler, components>>

\* lines 427-428: the exception reaches the outer handler
Fatal(t) ==
    /\ Running(t) /\ worker[t].pc \in RaisingPcs
    /\ tasks' = [tasks EXCEPT ![t].status = "FAILED"]
    /\ worker' = [worker EXCEPT ![t].pc = "except"]
    /\ UNCHANGED <<active_task, coll, ret, hist, returned, rerun, crawler, components>>

\* lines 429-432
FatalLog(t) ==
    /\ Running(t) /\ worker[t].pc = "except"
    /\ tasks' = [tasks EXCEPT ![t].errors = Append(@, <<"Fatal error">>),
                              ![t].end_time = "set"]
    /\ worker' = [worker EXCEPT ![t].pc = "done"]
    /\ UNCHANGED <<active_task, coll, ret, hist, returned, rerun, crawler, components>>

(***************************************************************************)
(* SpecManager: the registry                                               *)
(***************************************************************************)
\* the steps of the worker of a profile with nothing to ingest
NextManager ==
    \/ StartIngestion
    \/ CancelTask
    \/ \E t \in DOMAIN worker : Prepare(t)
    \/ \E t \in DOMAIN worker : DimCheckSame(t)
    \/ \E t \in DOMAIN worker : SetScanning(t)
    \/ \E t \in DOMAIN worker : ScanEnd(t)
    \/ \E t \in DOMAIN worker : CheckAfterScan(t)
    \/ \E t \in DOMAIN worker : SetProcessing(t)
    \/ \E t \in DOMAIN worker : NextItem(t)
    \/ \E t \in DOMAIN worker : CheckAfterProcessing(t)
    \/ \E t \in DOMAIN worker : SetIndexing(t)
    \/ \E t \in DOMAIN worker : NextBatch(t)
    \/ \E t \in DOMAIN worker : Complete(t)
    \/ \E t \in DOMAIN worker : Fatal(t)
    \/ \E t \in DOMAIN worker : FatalLog(t)

SpecManager == InitManager /\ [][NextManager]_vars

(***************************************************************************)
(* Spec: one ingestion run.  The profile pA has an index left by an        *)
(* earlier process, pB has none yet.                                       *)
(***************************************************************************)
Init ==
    \E p \in Profiles, c \in Configs :
        /\ tasks = (1 :> [IngestionTask(1, p) EXCEPT
                            !.status = "PREPARING", !.start_time = "set"])
        /\ active_task = 1
        /\ worker = (1 :> WorkerLocals(c))
        /\ coll = [q \in Profiles |-> IF q = "pA" THEN OldColl ELSE EmptyColl]
        /\ ret = [op |-> "start_ingestion", profile |-> p, task_id |-> 1]
        /\ hist = (1 :> NoHist)
        /\ returned = {1}
        /\ rerun = NoRerun
        /\ NoCrawl
        /\ NoComponents

Next ==
    \/ CancelTask
    \/ \E t \in DOMAIN worker : Prepare(t)
    \/ \E t \in DOMAIN worker : DimCheckSame(t)
    \/ \E t \in DOMAIN worker : DimCheckReset(t)
    \/ \E t \in DOMAIN worker : DimCheckRaises(t)
    \/ \E t \in DOMAIN worker : DimCheckDeleteRaises(t)
    \/ \E t \in DOMAIN worker : DimCheckCreateRaises(t)
    \/ \E t \in DOMAIN worker : SetScanning(t)
    \/ \E t \in DOMAIN worker : CrawlPage(t)
    \/ \E t \in DOMAIN worker : CrawlReturn(t)
    \/ \E t \in DOMAIN worker : LocalPath(t)
    \/ \E t \in DOMAIN worker : ScanEnd(t)
    \/ \E t \in DOMAIN worker : CheckAfterScan(t)
    \/ \E t \in DOMAIN worker : SetProcessing(t)
    \/ \E t \in DOMAIN worker : NextItem(t)
    \/ \E t \in DOMAIN worker : ProcessItem(t)
    \/ \E t \in DOMAIN worker : CheckAfterProcessing(t)
    \/ \E t \in DOMAIN worker : SetIndexing(t)
    \/ \E t \in DOMAIN worker : NextBatch(t)
    \/ \E t \in DOMAIN worker : UpsertBatch(t)
    \/ \E t \in DOMAIN worker : Complete(t)
    \/ \E t \in DOMAIN worker : Fatal(t)
    \/ \E t \in DOMAIN worker : FatalLog(t)

Spec == Init /\ [][Next]_vars

\* the steps of the worker threads, without the handlers of the API
RunIngestion ==
    \E t \in DOMAIN worker :
        \/ Prepare(t) \/ DimCheckSame(t) \/ DimCheckReset(t) \/ DimCheckRaises(t)
        \/ DimCheckDeleteRaises(t) \/ DimCheckCreateRaises(t) \/ SetScanning(t)
        \/ CrawlPage(t) \/ CrawlReturn(t) \/ LocalPath(t) \/ ScanEnd(t)
        \/ CheckAfterScan(t) \/ SetProcessing(t) \/ NextItem(t) \/ ProcessItem(t)
        \/ CheckAfterProcessing(t) \/ SetIndexing(t) \/ NextBatch(t)
        \/ UpsertBatch(t) \/ Complete(t) \/ Fatal(t) \/ FatalLog(t)

\* every call the worker makes returns or raises, and the thread is
\* scheduled again
SpecFair == Spec /\ WF_vars(RunIngestion)

(***************************************************************************)
(* SpecRerun: the chunk ids of two runs of _run_ingestion for one profile, *)
(* the second started after the first has completed.  Each run goes over   *)
(* its work items (the ones that yield chunks) and upserts all_chunks in   *)
(* batches, as ProcessItem and UpsertBatch do; rerun.ids is the collection *)
(* both runs upsert into.                                                  *)
(***************************************************************************)
\* a run's work items with the number of chunks of each: web pages first,
\* then the local files, no page and no file twice
RunItems ==
    LET files == Range(WebItems(<<"u1", "u2">>)) \cup Range(LocalItems(LocalFiles))
        docs == [file : files, count : ChunkCounts]
        seqs == UNION { [1..n -> docs] : n \in 0..MaxFiles }
    IN { q \in seqs :
           \A a, c \in 1..Len(q) :
               a < c => /\ q[a].file # q[c].file
                        /\ ~(q[a].file.type = "local" /\ q[c].file.type = "web") }

InitRerun ==
    /\ tasks = <<>> /\ active_task = NoTask /\ worker = <<>>
    /\ coll = [p \in Profiles |-> EmptyColl]
    /\ ret = [op |-> "none"] /\ hist = <<>> /\ returned = {}
    /\ NoCrawl
    /\ NoComponents
    /\ \E q1, q2 \in RunItems :
         rerun = [NoRerun EXCEPT !.items = <<q1, q2>>, !.run = 1]

\* lines 301-351 for the next work item of the run
RerunItem ==
    LET r == rerun.run
        doc == rerun.items[r][rerun.k + 1]
    IN
    /\ r \in {1, 2} /\ rerun.k < Len(rerun.items[r])
    /\ rerun' = [rerun EXCEPT
          !.all_chunks[r] = @ \o NewChunks(@, doc.file, doc.count),
          !.k = @ + 1]
    /\ UNCHANGED <<manager, crawler, components>>

\* lines 377-397 for the next batch of the run
RerunBatch ==
    LET r == rerun.run
        all_chunks == rerun.all_chunks[r]
        upto == Min(rerun.b + batch_size, ChunkLen(all_chunks))
    IN
    /\ r \in {1, 2} /\ rerun.k = Len(rerun.items[r])
    /\ rerun.b < ChunkLen(all_chunks)
    /\ rerun' = [rerun EXCEPT
          !.ids = @ \cup Slice(all_chunks, rerun.b, upto),
          !.b = @ + batch_size]
    /\ UNCHANGED <<manager, crawler, components>>

\* the run has completed; after the first the second is started
RerunEnd ==
    LET r == rerun.run IN
    /\ r \in {1, 2} /\ rerun.k = Len(rerun.items[r])
    /\ rerun.b >= ChunkLen(rerun.all_chunks[r])
    /\ rerun' = [rerun EXCEPT
          !.run = @ + 1, !.k = 0, !.b = 0,
          !.index1 = IF r = 1 THEN rerun.ids ELSE @]
    /\ UNCHANGED <<manager, crawler, components>>

NextRerun ==
    \/ RerunItem
    \/ RerunBatch
    \/ RerunEnd

SpecRerun == InitRerun /\ [][NextRerun]_vars

(***************************************************************************)
(* SpecCrawl: crawl_website (retriever/ingest.py), called MaxCalls times   *)
(* with the same arguments by one process.  A url is [host, path], the     *)
(* path a sequence of characters; a page's html is the list of the urls    *)
(* its links give after lines 189-192 (href filter and urljoin), and how   *)
(* many of them lines 186-196 take before the parser or urljoin raises     *)
(* (all of them when nothing raises).  The site gives the same answer each *)
(* time the same url is asked for.                                         *)
(***************************************************************************)
MaxDepth == 2    \* max_depth at most
MaxLinks == 2    \* links on the pages of the site, all together, at most
MaxFaults == 1   \* exceptions raised by the cache files at most
MaxCalls == 2    \* crawl_website calls
MaxCached == 1   \* pages in the cache when the process starts, at most

UrlRoot == [host |-> "h", path |-> <<>>]
UrlD == [host |-> "h", path |-> <<"/", "d">>]
UrlDA == [host |-> "h", path |-> <<"/", "d", "/", "a">>]
UrlX == [host |-> "x", path |-> <<"/", "d">>]
SiteUrls == {UrlRoot, UrlD, UrlDA, UrlX}

LinkLists(n) == UNION { [1..k -> SiteUrls] : k \in 0..n }
Html(n) == { h \in [links : LinkLists(n), taken : 0..n] : h.taken <= Len(h.links) }
NoLinks == [links |-> <<>>, taken |-> 0]
\* the answers to a page GET: 200 with text/html, another status or
\* content type (both with a body of at most n links), or an exception of
\* requests.get
Responses(n) ==
    [kind : {"ok", "rejected"}, html : Html(n)]
      \cup {[kind |-> "error", html |-> NoLinks]}

RECURSIVE LinksOn(_)
\* the number of links on the pages the site has answered with
LinksOn(answers) ==
    IF DOMAIN answers = {} THEN 0
    ELSE LET u == CHOOSE u \in DOMAIN answers : TRUE
         IN Len(answers[u].html.links)
              + LinksOn([v \in DOMAIN answers \ {u} |-> answers[v]])
\* _robots_cache entries: None (valid FALSE) or a parser with the path
\* prefixes the file disallows for the crawler's user agent
RobotsEntries ==
    {[valid |-> FALSE, disallow |-> {}]}
      \cup [valid : {TRUE}, disallow : {{}, {UrlDA.path}}]

\* the calls _run_ingestion makes (lines 196-205): from the domain with no
\* allowed_paths, or from domain + path with the allowed_paths
CrawlArgs ==
    { [start_url |-> UrlRoot, allowed_paths |-> <<>>, max_depth |-> n] : n \in 0..MaxDepth }
      \cup { [start_url |-> UrlD, allowed_paths |-> <<UrlD.path>>, max_depth |-> n] :
               n \in 0..MaxDepth }

\* str.startswith
startswith(str, prefix) ==
    Len(prefix) <= Len(str) /\ SubSeq(str, 1, Len(prefix)) = prefix

\* lines 124-125: scheme and netloc of the start url
base_domain(start_url) == [host |-> start_url.host, path |-> <<>>]

\* the path check without the comparison of the hosts
_is_allowed_path_any_host(url, start_domain, allowed_paths) ==
    LET path == IF url.path = <<>> THEN <<"/">> ELSE url.path IN
    IF allowed_paths = <<>> THEN TRUE
    ELSE \E k \in 1..Len(allowed_paths) : startswith(path, allowed_paths[k])

\* lines 87-96
_is_allowed_path(url, start_domain, allowed_paths) ==
    LET path == IF url.path = <<>> THEN <<"/">> ELSE url.path IN
    IF url.host # start_domain.host THEN FALSE
    ELSE IF allowed_paths = <<>> THEN TRUE
    ELSE \E k \in 1..Len(allowed_paths) : startswith(path, allowed_paths[k])

\* RobotFileParser.can_fetch for a file of Disallow lines (line 82)
can_fetch(rp, url) ==
    LET path == IF url.path = <<>> THEN <<"/">> ELSE url.path IN
    \A prefix \in rp.disallow : ~startswith(path, prefix)

\* lines 133-137: the locals at the start of a call
CrawlLocals(args, call, outs) ==
    [pc       |-> "loop",
     call     |-> call,
     args     |-> args,
     seen     |-> {},
     out      |-> <<>>,     \* the dict as [url, html] in insertion order
     frontier |-> << [url |-> args.start_url, depth |-> 0] >>,
     url      |-> args.start_url,
     depth    |-> 0,
     html     |-> NoLinks,
     outs     |-> outs]     \* what the earlier calls returned

NoNet ==
    [gets    |-> [u \in SiteUrls |-> 0],   \* page GETs per url, this call
     reads   |-> {},                        \* urls _read_cache was called for
     adds    |-> [u \in SiteUrls |-> 0],   \* out[url] = html per url, this call
     robots  |-> 0,                         \* GETs of robots.txt, all calls
     faults  |-> 0,                         \* cache exceptions so far, all calls
     unread  |-> {},       \* urls whose cache file raised when read, all calls
     unwritten |-> {},     \* urls whose cache file raised when written, all calls
     pending |-> FALSE]                     \* a page GET with no sleep since

InitCrawl ==
    /\ tasks = <<>> /\ active_task = NoTask /\ worker = <<>>
    /\ coll = [p \in Profiles |-> EmptyColl]
    /\ ret = [op |-> "none"] /\ hist = <<>> /\ returned = {}
    /\ rerun = NoRerun
    /\ NoComponents
    /\ robots_cache = <<>>
    /\ \E S \in SUBSET (SiteUrls \ {UrlX}) :
         /\ Cardinality(S) <= MaxCached
         /\ cache_dir = [u \in S |-> NoLinks]
    /\ web = <<>>
    /\ \E args \in CrawlArgs : cw = CrawlLocals(args, 1, <<>>)
    /\ net = NoNet

\* line 202-203: the frontier is empty, out is returned
CwReturn ==
    /\ cw.pc = "loop" /\ cw.frontier = <<>>
    /\ cw' = [cw EXCEPT !.pc = "returned", !.outs = Append(@, cw.out)]
    /\ UNCHANGED <<manager, rerun, components, robots_cache, cache_dir, web, net>>

\* the loop head without the seen set
CwDequeueAgain ==
    LET url == cw.frontier[1].url
        depth == cw.frontier[1].depth
        popped == [cw EXCEPT !.frontier = Tail(@), !.url = url, !.depth = depth]
    IN
    /\ cw.pc = "loop" /\ cw.frontier # <<>>
    /\ cw' = IF ~_is_allowed_path(url, base_domain(cw.args.start_url),
                                  cw.args.allowed_paths)
             THEN popped
             ELSE [popped EXCEPT !.pc = "robots"]
    /\ UNCHANGED <<manager, rerun, components, robots_cache, cache_dir, web, net>>

\* lines 139-149: the next url of the frontier, the seen set and the
\* host and path check
CwDequeue ==
    LET url == cw.frontier[1].url
        depth == cw.frontier[1].depth
        popped == [cw EXCEPT !.frontier = Tail(@), !.url = url, !.depth = depth]
    IN
    /\ cw.pc = "loop" /\ cw.frontier # <<>>
    /\ cw' = IF url \in cw.seen THEN popped
             ELSE IF ~_is_allowed_path(url, base_domain(cw.args.start_url),
                                       cw.args.allowed_paths)
             THEN [popped EXCEPT !.seen = @ \cup {url}]
             ELSE [popped EXCEPT !.seen = @ \cup {url}, !.pc = "robots"]
    /\ UNCHANGED <<manager, rerun, components, robots_cache, cache_dir, web, net>>

\* _robots_allowed, lines 61-77: the domain key is not in _robots_cache,
\* robots.txt is asked for and the parser, or None, is stored
CwRobotsFetch ==
    LET domain_key == cw.args.start_url.host IN
    /\ cw.pc = "robots" /\ domain_key \notin DOMAIN robots_cache
    /\ \E rp \in RobotsEntries : robots_cache' = robots_cache @@ (domain_key :> rp)
    /\ net' = [net EXCEPT !.robots = @ + 1]
    /\ UNCHANGED <<manager, rerun, components, cache_dir, web, cw>>

\* the crawl with respect = False: every url is allowed
CwRobotsIgnored ==
    /\ cw.pc = "robots" /\ cw.args.start_url.host \in DOMAIN robots_cache
    /\ cw' = [cw EXCEPT !.pc = "read"]
    /\ UNCHANGED <<manager, rerun, components, robots_cache, cache_dir, web, net>>

\* _robots_allowed, lines 79-85, and lines 150-152
CwRobotsAllowed ==
    LET domain_key == cw.args.start_url.host
        rp == robots_cache[domain_key]
    IN
    /\ cw.pc = "robots" /\ domain_key \in DOMAIN robots_cache
    /\ cw' = [cw EXCEPT !.pc = IF ~rp.valid \/ can_fetch(rp, cw.url)
                               THEN "read" ELSE "loop"]
    /\ UNCHANGED <<manager, rerun, components, robots_cache, cache_dir, web, net>>

\* the crawl that does not look into the cache
CwReadCacheMiss ==
    /\ cw.pc = "read"
    /\ cw' = [cw EXCEPT !.pc = "fetch"]
    /\ net' = [net EXCEPT !.reads = @ \cup {cw.url}]
    /\ UNCHANGED <<manager, rerun, components, robots_cache, cache_dir, web>>

\* _read_cache (lines 98-106) and lines 155-156, 172-173: the cached html,
\* or None when there is no file or reading it raises
CwReadCache ==
    /\ cw.pc = "read"
    /\ \/ /\ cw.url \in DOMAIN cache_dir
          /\ cw' = [cw EXCEPT !.html = cache_dir[cw.url], !.pc = "add"]
          /\ net' = [net EXCEPT !.reads = @ \cup {cw.url}]
       \/ /\ cw.url \notin DOMAIN cache_dir
          /\ cw' = [cw EXCEPT !.pc = "fetch"]
          /\ net' = [net EXCEPT !.reads = @ \cup {cw.url}]
       \/ /\ cw.url \in DOMAIN cache_dir /\ net.faults < MaxFaults
          /\ cw' = [cw EXCEPT !.pc = "fetch"]
          /\ net' = [net EXCEPT !.reads = @ \cup {cw.url}, !.faults = @ + 1,
                                !.unread = @ \cup {cw.url}]
    /\ UNCHANGED <<manager, rerun, components, robots_cache, cache_dir, web>>

\* the GET without the check of status and content type
CwFetchAnyStatus ==
    /\ cw.pc = "fetch"
    /\ \E r \in IF cw.url \in DOMAIN web THEN {web[cw.url]}
                ELSE Responses(MaxLinks - LinksOn(web)) :
         /\ web' = IF cw.url \in DOMAIN web THEN web ELSE web @@ (cw.url :> r)
         /\ cw' = IF r.kind # "error" THEN [cw EXCEPT !.html = r.html, !.pc = "write"]
                  ELSE [cw EXCEPT !.pc = "loop"]
    /\ net' = [net EXCEPT !.gets[cw.url] = @ + 1, !.pending = TRUE]
    /\ UNCHANGED <<manager, rerun, components, robots_cache, cache_dir>>

\* lines 158-164, 169-171: the GET and the check of its status and type
CwFetch ==
    /\ cw.pc = "fetch"
    /\ \E r \in IF cw.url \in DOMAIN web THEN {web[cw.url]}
                ELSE Responses(MaxLinks - LinksOn(web)) :
         /\ web' = IF cw.url \in DOMAIN web THEN web ELSE web @@ (cw.url :> r)
         /\ cw' = IF r.kind = "ok" THEN [cw EXCEPT !.html = r.html, !.pc = "write"]
                  ELSE [cw EXCEPT !.pc = "loop"]
    /\ net' = [net EXCEPT !.gets[cw.url] = @ + 1, !.pending = TRUE]
    /\ UNCHANGED <<manager, rerun, components, robots_cache, cache_dir>>

\* _write_cache (lines 108-115) called at line 165: the file is written,
\* or write_text raises and the exception is dropped, or mkdir raises and
\* the handler of line 169 skips the url
CwWriteCache ==
    /\ cw.pc = "write"
    /\ \/ /\ cache_dir' = [u \in DOMAIN cache_dir \cup {cw.url} |->
                              IF u = cw.url THEN cw.html ELSE cache_dir[u]]
          /\ cw' = [cw EXCEPT !.pc = "sleep"]
          /\ UNCHANGED net
       \/ /\ net.faults < MaxFaults
          /\ cw' = [cw EXCEPT !.pc = "sleep"]
          /\ net' = [net EXCEPT !.faults = @ + 1, !.unwritten = @ \cup {cw.url}]
          /\ UNCHANGED cache_dir
       \/ /\ net.faults < MaxFaults
          /\ cw' = [cw EXCEPT !.pc = "loop"]
          /\ net' = [net EXCEPT !.faults = @ + 1]
          /\ UNCHANGED cache_dir
    /\ UNCHANGED <<manager, rerun, components, robots_cache, web>>

\* line 168
CwSleep ==
    /\ cw.pc = "sleep"
    /\ net' = [net EXCEPT !.pending = FALSE]
    /\ cw' = [cw EXCEPT !.pc = "add"]
    /\ UNCHANGED <<manager, rerun, components, robots_cache, cache_dir, web>>

\* dict[key] = value: a new key goes to the end, a known key keeps its place
DictSetItem(out, url, html) ==
    IF \E k \in 1..Len(out) : out[k].url = url
    THEN [k \in 1..Len(out) |-> IF out[k].url = url
                                THEN [url |-> url, html |-> html] ELSE out[k]]
    ELSE Append(out, [url |-> url, html |-> html])

\* the crawl that follows the links of a page at any depth
CwAddAnyDepth ==
    /\ cw.pc = "add"
    /\ cw' = [cw EXCEPT !.out = DictSetItem(@, cw.url, cw.html), !.pc = "links"]
    /\ net' = [net EXCEPT !.adds[cw.url] = @ + 1]
    /\ UNCHANGED <<manager, rerun, components, robots_cache, cache_dir, web>>

\* lines 175-182: the page goes to out; at max_depth its links are left
CwAdd ==
    /\ cw.pc = "add"
    /\ cw' = [cw EXCEPT !.out = DictSetItem(@, cw.url, cw.html),
                        !.pc = IF cw.depth >= cw.args.max_depth THEN "loop" ELSE "links"]
    /\ net' = [net EXCEPT !.adds[cw.url] = @ + 1]
    /\ UNCHANGED <<manager, rerun, components, robots_cache, cache_dir, web>>

\* lines 194-196 for the links in order
Enqueue(frontier, links, depth, args) ==
    frontier \o
      [k \in 1..Len(links) |-> [url |-> links[k], depth |-> depth + 1]]

AllowedLinks(links, args) ==
    SelectSeq(links, LAMBDA nxt :
        _is_allowed_path(nxt, base_domain(args.start_url), args.allowed_paths))

\* the link discovery that keeps no link of a page when the parser or
\* urljoin raises
CwLinksNoneOnError ==
    /\ cw.pc = "links"
    /\ cw' = [cw EXCEPT
          !.frontier = IF cw.html.taken < Len(cw.html.links) THEN @
                       ELSE Enqueue(@, AllowedLinks(cw.html.links, cw.args),
                                    cw.depth, cw.args),
          !.pc = "loop"]
    /\ UNCHANGED <<manager, rerun, components, robots_cache, cache_dir, web, net>>

\* lines 185-200: the links of the page are put on the frontier; when the
\* parser or urljoin raises, the links taken before stay
CwLinks ==
    /\ cw.pc = "links"
    /\ cw' = [cw EXCEPT
          !.frontier = Enqueue(@, AllowedLinks(SubSeq(cw.html.links, 1, cw.html.taken),
                                               cw.args),
                               cw.depth, cw.args),
          !.pc = "loop"]
    /\ UNCHANGED <<manager, rerun, components, robots_cache, cache_dir, web, net>>

\* the next call, with the arguments of the one before
CwCall ==
    /\ cw.pc = "returned" /\ cw.call < MaxCalls
    /\ cw' = CrawlLocals(cw.args, cw.call + 1, cw.outs)
    /\ net' = [NoNet EXCEPT !.robots = net.robots, !.faults = net.faults,
                            !.unread = net.unread, !.unwritten = net.unwritten]
    /\ UNCHANGED <<manager, rerun, components, robots_cache, cache_dir, web>>

NextCrawl ==
    \/ CwReturn
    \/ CwDequeue
    \/ CwRobotsFetch
    \/ CwRobotsAllowed
    \/ CwReadCache
    \/ CwFetch
    \/ CwWriteCache
    \/ CwSleep
    \/ CwAdd
    \/ CwLinks
    \/ CwCall

SpecCrawl == InitCrawl /\ [][NextCrawl]_vars

\* the caller's thread goes on running
SpecCrawlFair == SpecCrawl /\ WF_vars(NextCrawl)

(***************************************************************************)
(* SpecRobots: _robots_allowed (retriever/ingest.py) called by the crawls  *)
(* of two worker threads of the ingestion manager (start_ingestion, lines  *)
(* 101-107, starts one thread per task).  _robots_cache is a module-level  *)
(* dict without a lock; a thread can be suspended between the test of line *)
(* 61 and the GET, and during the GET.                                     *)
(***************************************************************************)
MaxRobotsCalls == 2   \* _robots_allowed calls of one thread

Threads == {1, 2}

\* the start domains of the crawls
RobotHosts == {"h", "x"}

InitRobots ==
    /\ tasks = <<>> /\ active_task = NoTask /\ worker = <<>>
    /\ coll = [p \in Profiles |-> EmptyColl]
    /\ ret = [op |-> "none"] /\ hist = <<>> /\ returned = {}
    /\ rerun = NoRerun
    /\ cache_dir = <<>> /\ web = <<>> /\ cw = [pc |-> "none"] /\ net = [gets |-> <<>>]
    /\ NoScan /\ NoCategorize /\ NoChunk /\ NoSearch /\ NoRecords
    /\ up = [pc |-> "none"]
    /\ robots_cache = <<>>
    /\ rt = [th |-> [t \in Threads |->
                       [pc |-> "idle", domain_key |-> "h", url |-> UrlD, calls |-> 0,
                        allowed |-> TRUE]],
             requests |-> [h \in RobotHosts |-> 0]]

\* line 150: the crawl of thread t calls _robots_allowed; lines 58-59
RtCall(t) ==
    /\ rt.th[t].pc = "idle" /\ rt.th[t].calls < MaxRobotsCalls
    /\ \E h \in RobotHosts, path \in {UrlD.path, UrlDA.path} :
         rt' = [rt EXCEPT !.th[t].pc = "check", !.th[t].domain_key = h,
                          !.th[t].url = [host |-> h, path |-> path]]
    /\ UNCHANGED <<manager, rerun, crawler, updater, dc, ck, retrieval, im, up>>

\* line 61
RtCheck(t) ==
    /\ rt.th[t].pc = "check"
    /\ rt' = [rt EXCEPT !.th[t].pc =
                IF rt.th[t].domain_key \notin DOMAIN robots_cache THEN "get" ELSE "lookup"]
    /\ UNCHANGED <<manager, rerun, crawler, updater, dc, ck, retrieval, im, up>>

\* lines 62-77: the GET of robots.txt, and the parser or None stored
RtGet(t) ==
    LET domain_key == rt.th[t].domain_key IN
    /\ rt.th[t].pc = "get"
    /\ \E rp \in RobotsEntries :
         robots_cache' = [k \in DOMAIN robots_cache \cup {domain_key} |->
                            IF k = domain_key THEN rp ELSE robots_cache[k]]
    /\ rt' = [rt EXCEPT !.th[t].pc = "lookup", !.requests[domain_key] = @ + 1]
    /\ UNCHANGED <<manager, rerun, cache_dir, web, cw, net, updater, dc, ck,
                   retrieval, im, up>>

\* lines 79-85
RtLookup(t) ==
    LET rp == robots_cache[rt.th[t].domain_key] IN
    /\ rt.th[t].pc = "lookup"
    /\ rt' = [rt EXCEPT !.th[t].pc = "idle", !.th[t].calls = @ + 1,
                        !.th[t].allowed = ~rp.valid \/ can_fetch(rp, rt.th[t].url)]
    /\ UNCHANGED <<manager, rerun, crawler, updater, dc, ck, retrieval, im, up>>

NextRobots ==
    \/ \E t \in Threads : RtCall(t)
    \/ \E t \in Threads : RtCheck(t)
    \/ \E t \in Threads : RtGet(t)
    \/ \E t \in Threads : RtLookup(t)

SpecRobots == InitRobots /\ [][NextRobots]_vars

(***************************************************************************)
(* IncrementalUpdater (incremental_updater.py): scan_for_changes(urls) and  *)
(* the check_url_changes(url) it makes for each url, over the tables        *)
(* document_metadata and change_log of ingestion_metadata.db.  A page's     *)
(* content is a sequence of tokens: letters, a blank, and "ts" for a        *)
(* substring one of the patterns of _remove_dynamic_content matches.  A     *)
(* column or header that is NULL, None or absent is the empty set, a value  *)
(* x is {x}.                                                                *)
(***************************************************************************)
MaxUrls == 2      \* urls given to scan_for_changes at most
MaxContent == 1   \* tokens of a page's content at most

None == {}
ScanUrls == {"u1", "u2"}
Tokens == {"a", "A", " ", "ts"}
Contents == UNION { [1..n -> Tokens] : n \in 0..MaxContent }

RECURSIVE lstrip(_)
lstrip(content) ==
    IF content # <<>> /\ content[1] = " " THEN lstrip(Tail(content)) ELSE content

RECURSIVE rstrip(_)
rstrip(content) ==
    IF content # <<>> /\ content[Len(content)] = " "
    THEN rstrip(SubSeq(content, 1, Len(content) - 1))
    ELSE content

\* str.strip
strip(content) == rstrip(lstrip(content))

\* str.lower
lower(content) ==
    [k \in 1..Len(content) |-> IF content[k] = "A" THEN "a" ELSE content[k]]

\* lines 89-106
_remove_dynamic_content(content) ==
    SelectSeq(content, LAMBDA tok : tok # "ts")

\* lines 81-87; sha256 is one to one on the contents here, and the
\* normalized content stands for its digest
calculate_content_hash(content) ==
    _remove_dynamic_content(lower(strip(content)))

\* int() of a Content-Length header; "x" is a value int() raises on
IntOf(str) == IF str = "1" THEN 1 ELSE 2

\* the answers to requests.head: the three headers, or an exception with
\* its str()
HeadResponses ==
    [kind : {"ok"}, etag : {None, {"1"}, {"2"}},
     last_modified : {None, {"1"}, {"2"}},
     content_length : {None, {"1"}, {"2"}, {"x"}}]
      \cup [kind : {"error"}, msg : {"", "timed out"}]

\* the answers to requests.get and response.text
GetResponses ==
    [kind : {"ok"}, content : Contents]
      \cup [kind : {"error"}, msg : {"", "timed out"}]

\* the request is not made
NotAsked == [kind |-> "none"]

\* the rows of document_metadata
MetadataRows ==
    [content_hash : {calculate_content_hash(<<"a">>)},
     last_modified : {None, {"1"}}, etag : {None, {"1"}},
     content_length : {None, {1}}]

\* lines 136-155: the signals of the headers against the row
HeaderSignals(existing, headers) ==
    (IF headers.etag # None /\ headers.etag # existing.etag
     THEN <<"etag">> ELSE <<>>)
    \o (IF headers.last_modified # None
           /\ headers.last_modified # existing.last_modified
        THEN <<"last_modified">> ELSE <<>>)
    \o (IF headers.content_length # None
           /\ { IntOf(x) : x \in headers.content_length } # existing.content_length
        THEN <<"content_length">> ELSE <<>>)

\* line 178: the largest weight of the signals, in tenths
Confidence(signals) ==
    IF "content_hash" \in Range(signals) THEN 10
    ELSE IF "etag" \in Range(signals) THEN 9
    ELSE IF "last_modified" \in Range(signals) THEN 8
    ELSE 5

\* lines 190-192
Failed(changes, msg) ==
    [changes EXCEPT !.has_changed = "None"] @@ [error |-> msg]

\* lines 131-158: the HEAD has answered, int() has not raised, and the
\* url is new or a signal has fired
Fetches(url, head) ==
    /\ head.kind = "ok"
    /\ url \in DOMAIN document_metadata
          => /\ head.content_length # {"x"}
             /\ HeaderSignals(document_metadata[url], head) # <<>>

\* the check that takes a signal of the headers for a change
check_url_changes_by_headers(url, head, get) ==
    LET known == url \in DOMAIN document_metadata
        existing == document_metadata[url]
        changes == [url |-> url, has_changed |-> "False", is_new |-> ~known,
                    change_type |-> None, confidence |-> 0]
        signals == IF known THEN HeaderSignals(existing, head) ELSE <<>>
        current_hash == calculate_content_hash(get.content)
    IN
    IF head.kind = "error" THEN Failed(changes, head.msg)
    ELSE IF known /\ head.content_length = {"x"}
         THEN Failed(changes, "invalid literal for int()")
    ELSE IF ~Fetches(url, head) THEN changes
    ELSE IF get.kind = "error" THEN Failed(changes, get.msg)
    ELSE [changes EXCEPT !.has_changed = "True"]
           @@ [new_hash |-> current_hash, metadata |-> [content_hash |-> current_hash]]
           @@ (IF known THEN [old_hash |-> existing.content_hash] ELSE <<>>)

\* check_url_changes (lines 108-195) with the answers head and get of
\* the site; get is NotAsked when line 159 is not reached
check_url_changes(url, head, get) ==
    LET known == url \in DOMAIN document_metadata
        existing == document_metadata[url]
        changes == [url |-> url, has_changed |-> "False", is_new |-> ~known,
                    change_type |-> None, confidence |-> 0]
        signals == IF known THEN HeaderSignals(existing, head) ELSE <<>>
        current_hash == calculate_content_hash(get.content)
        differs == known /\ current_hash # existing.content_hash
        all_signals == IF differs THEN Append(signals, "content_hash") ELSE signals
        metadata == [content_hash |-> current_hash,
                     last_modified |-> head.last_modified,
                     etag |-> head.etag,
                     content_length |-> { IntOf(x) : x \in head.content_length },
                     content |-> get.content]
    IN
    IF head.kind = "error" THEN Failed(changes, head.msg)
    ELSE IF known /\ head.content_length = {"x"}
         THEN Failed(changes, "invalid literal for int()")
    ELSE IF ~Fetches(url, head) THEN changes
    ELSE IF get.kind = "error" THEN Failed(changes, get.msg)
    ELSE ( IF all_signals # <<>>
           THEN [confidence |-> Confidence(all_signals), signals |-> all_signals]
           ELSE <<>> )
         @@ ( IF differs
              THEN [changes EXCEPT !.has_changed = "True"]
                     @@ [old_hash |-> existing.content_hash, new_hash |-> current_hash]
              ELSE IF known THEN changes
              ELSE [changes EXCEPT !.has_changed = "True"]
                     @@ [new_hash |-> current_hash] )
         @@ [metadata |-> metadata]

\* dict.get(key) as a truth value
Truthy(d, key) == key \in DOMAIN d /\ d[key] \notin {"", "None", "False"}

\* dict.get(key), None when the key is absent
Get(d, key) == IF key \in DOMAIN d THEN {d[key]} ELSE None

\* the log that keeps the new hash only
_log_change_new_hash(url, change_type, old_hash, new_hash) ==
    Append(change_log, [url |-> url, change_type |-> change_type,
                        old_hash |-> None, new_hash |-> new_hash,
                        processed |-> FALSE])

\* _log_change (lines 238-249)
_log_change(url, change_type, old_hash, new_hash) ==
    Append(change_log, [url |-> url, change_type |-> change_type,
                        old_hash |-> old_hash, new_hash |-> new_hash,
                        processed |-> FALSE])

NoResults == [unchanged |-> <<>>, updated |-> <<>>, new |-> <<>>, errors |-> <<>>]

\* lines 202-209; change_info, head and get are those of the last turn
ScanLocals(urls) ==
    [pc |-> "scan", urls |-> urls, i |-> 0,
     results |-> NoResults, change_info |-> <<>>,
     head |-> NotAsked, get |-> NotAsked]

InitScan ==
    /\ tasks = <<>> /\ active_task = NoTask /\ worker = <<>>
    /\ coll = [p \in Profiles |-> EmptyColl]
    /\ ret = [op |-> "none"] /\ hist = <<>> /\ returned = {}
    /\ rerun = NoRerun
    /\ NoCrawl
    /\ NoCategorize /\ NoChunk /\ NoSearch /\ NoRecords /\ NoLater
    /\ \E S \in SUBSET {"u1"} : document_metadata \in [S -> MetadataRows]
    /\ change_log = <<>>
    /\ \E n \in 0..MaxUrls : \E urls \in [1..n -> ScanUrls] :
         sc = ScanLocals(urls)

\* lines 212-227: one turn of the loop, the site answering head and get
ScanTurn(head, get) ==
    LET url == sc.urls[sc.i + 1]
        change_info == check_url_changes(url, head, get)
        list == IF Truthy(change_info, "error") THEN "errors"
                ELSE IF change_info.is_new THEN "new"
                ELSE IF Truthy(change_info, "has_changed") THEN "updated"
                ELSE "unchanged"
    IN
    /\ sc' = [sc EXCEPT !.i = @ + 1, !.change_info = change_info,
                        !.head = head, !.get = get,
                        !.results[list] = Append(@, url)]
    /\ change_log' =
         IF list = "updated"
         THEN _log_change(url, "content", Get(change_info, "old_hash"),
                          Get(change_info, "new_hash"))
         ELSE change_log

ScanUrl ==
    /\ sc.pc = "scan" /\ sc.i < Len(sc.urls)
    /\ \E head \in HeadResponses :
       \E get \in IF Fetches(sc.urls[sc.i + 1], head) THEN GetResponses ELSE {NotAsked} :
         ScanTurn(head, get)
    /\ UNCHANGED <<manager, rerun, crawler, document_metadata, dc, ck, retrieval, im, later>>

\* lines 229-236
ScanReturn ==
    /\ sc.pc = "scan" /\ sc.i = Len(sc.urls)
    /\ sc' = [sc EXCEPT !.pc = "returned"]
    /\ UNCHANGED <<manager, rerun, crawler, document_metadata, change_log, dc, ck, retrieval, im, later>>

NextScan ==
    \/ ScanUrl
    \/ ScanReturn

SpecScan == InitScan /\ [][NextScan]_vars

(***************************************************************************)
(* IncrementalUpdater.update_only_changed (incremental_updater.py) between *)
(* two scans of the same urls, as run_incremental_update puts them         *)
(* together.  The site answers each url with the same HEAD and GET every   *)
(* time.  A chunk id is <<url, k>> for the k-th chunk of url; index is the *)
(* set of ids in the collection "docs", chunk_ids the column of that name  *)
(* of document_metadata (NULL is None).                                    *)
(***************************************************************************)
ChunkIdLists(url) == {<< <<url, 0>> >>, << <<url, 0>>, <<url, 1>> >>}

\* the answers of the site that update_only_changed and the scans meet
UpHeads ==
    { h \in HeadResponses :
        IF h.kind = "ok" THEN h.last_modified = None /\ h.content_length = None
        ELSE h.msg = "timed out" }

UpGets == { g \in GetResponses : g.kind = "error" => g.msg = "timed out" }

\* the answers of a url that no call names
Unasked ==
    [head |-> [kind |-> "error", msg |-> "timed out"],
     get |-> [kind |-> "error", msg |-> "timed out"]]

\* lines 261-267
NoStats ==
    [updated_chunks |-> 0, new_chunks |-> 0, deleted_chunks |-> 0,
     preserved_chunks |-> 0, errors |-> <<>>]

\* the GET of url, made when line 158 lets it be made
GetOf(url) ==
    IF Fetches(url, up.site[url].head) THEN up.site[url].get ELSE NotAsked

\* lines 307-309: _chunk(content, chunk_tokens=..., chunk_overlap=...); the
\* parameters of _chunk are md, tok and overlap (ingest.py line 43), so
\* the call raises TypeError before the body of _chunk runs
ChunkCall(content) ==
    [raised |-> TRUE,
     msg |-> "_chunk() got an unexpected keyword argument 'chunk_tokens'"]

InitUpdate ==
    /\ tasks = <<>> /\ active_task = NoTask /\ worker = <<>>
    /\ coll = [p \in Profiles |-> EmptyColl]
    /\ ret = [op |-> "none"] /\ hist = <<>> /\ returned = {}
    /\ rerun = NoRerun
    /\ NoCrawl
    /\ NoCategorize /\ NoChunk /\ NoSearch /\ NoRecords
    /\ rt = [pc |-> "none"]
    /\ \E S \in SUBSET {"u1"} : document_metadata \in [S -> MetadataRows]
    /\ change_log = <<>>
    /\ \E n \in 1..MaxUrls : \E urls \in [1..n -> ScanUrls] :
       \E site \in [ScanUrls -> [head : UpHeads, get : UpGets]] :
       (\A u \in ScanUrls \ Range(urls) : site[u] = Unasked) /\
       \E chunk_ids \in [DOMAIN document_metadata ->
                           {None} \cup UNION { {{l} : l \in ChunkIdLists("u1")} }] :
       \E others \in SUBSET { <<"u2", 0>> } :
         LET index == others \cup UNION { Range(l) : l \in UNION { chunk_ids[u] : u \in DOMAIN chunk_ids } }
         IN
         /\ sc = ScanLocals(urls)
         /\ up = [pc |-> "scan", urls |-> urls, site |-> site,
                  index |-> index, chunk_ids |-> chunk_ids, held |-> index,
                  change_results |-> NoResults, stats |-> NoStats, i |-> 0]

\* scan_for_changes, one turn (lines 212-227), at lines 461 and again
\* after the update
UpScanUrl ==
    /\ up.pc \in {"scan", "rescan"}
    /\ sc.pc = "scan" /\ sc.i < Len(sc.urls)
    /\ ScanTurn(up.site[sc.urls[sc.i + 1]].head, GetOf(sc.urls[sc.i + 1]))
    /\ UNCHANGED <<manager, rerun, crawler, document_metadata, dc, ck, retrieval, im, later>>

\* run_incremental_update, lines 464-473: update_only_changed is called
\* with the lists of the scan; lines 261-281
UpCall ==
    /\ up.pc = "scan" /\ sc.pc = "returned"
    /\ sc.results.updated # <<>> \/ sc.results.new # <<>>
    /\ up' = [up EXCEPT !.pc = "updated", !.change_results = sc.results,
                        !.stats = NoStats, !.i = 0, !.held = up.index]
    /\ UNCHANGED <<manager, rerun, crawler, updater, dc, ck, retrieval, im, rt>>

\* run_incremental_update, lines 475-477: nothing to update
UpNoChanges ==
    /\ up.pc = "scan" /\ sc.pc = "returned"
    /\ sc.results.updated = <<>> /\ sc.results.new = <<>>
    /\ up' = [up EXCEPT !.pc = "returned", !.change_results = sc.results]
    /\ UNCHANGED <<manager, rerun, crawler, updater, dc, ck, retrieval, im, rt>>

\* lines 284-343: one url of change_results['updated'].  The old chunks
\* are deleted first (lines 288-299), then the url is checked again (line
\* 302); with a content, line 307 raises and the handler of lines 341-343
\* records it; lines 311-339 (upsert, UPDATE of the row) are not reached.
\* Without the key metadata or with an empty content nothing more is done.
UpdateUrl ==
    /\ up.pc = "updated" /\ up.i < Len(up.change_results.updated)
    /\ LET url == up.change_results.updated[up.i + 1]
           result == IF url \in DOMAIN up.chunk_ids THEN up.chunk_ids[url] ELSE None
           old_chunk_ids == UNION { Range(l) : l \in result }
           deleted == UNION { {Len(l)} : l \in result }
           n_deleted == IF deleted = {} THEN 0 ELSE CHOOSE n \in deleted : TRUE
           change_info == check_url_changes(url, up.site[url].head, GetOf(url))
           has_content == /\ "metadata" \in DOMAIN change_info
                          /\ change_info.metadata.content # <<>>
           call == ChunkCall(change_info.metadata.content)
       IN
       up' = [up EXCEPT !.i = @ + 1,
                        !.index = @ \ old_chunk_ids,
                        !.stats.deleted_chunks = @ + n_deleted,
                        !.stats.errors =
                            IF has_content /\ call.raised
                            THEN Append(@, <<url, call.msg>>) ELSE @]
    /\ UNCHANGED <<manager, rerun, crawler, updater, dc, ck, retrieval, im, rt>>

\* line 346: the loop over change_results['new'] begins
UpdatedDone ==
    /\ up.pc = "updated" /\ up.i = Len(up.change_results.updated)
    /\ up' = [up EXCEPT !.pc = "new", !.i = 0]
    /\ UNCHANGED <<manager, rerun, crawler, updater, dc, ck, retrieval, im, rt>>

\* lines 346-354: one url of change_results['new']; only the counter moves
NewUrl ==
    /\ up.pc = "new" /\ up.i < Len(up.change_results.new)
    /\ up' = [up EXCEPT !.i = @ + 1, !.stats.new_chunks = @ + 1]
    /\ UNCHANGED <<manager, rerun, crawler, updater, dc, ck, retrieval, im, rt>>

\* lines 356-371
UpReturn ==
    /\ up.pc = "new" /\ up.i = Len(up.change_results.new)
    /\ up' = [up EXCEPT !.pc = "returned",
                        !.stats.preserved_chunks =
                            Cardinality(up.index) - up.stats.updated_chunks
                              - up.stats.new_chunks]
    /\ UNCHANGED <<manager, rerun, crawler, updater, dc, ck, retrieval, im, rt>>

\* scan_for_changes on the same urls once more (lines 202-209)
Rescan ==
    /\ up.pc = "returned"
    /\ sc' = ScanLocals(up.urls)
    /\ up' = [up EXCEPT !.pc = "rescan"]
    /\ UNCHANGED <<manager, rerun, crawler, document_metadata, change_log, dc, ck, retrieval, im, rt>>

NextUpdate ==
    \/ UpScanUrl
    \/ ScanReturn
    \/ UpCall
    \/ UpNoChanges
    \/ UpdateUrl
    \/ UpdatedDone
    \/ NewUrl
    \/ UpReturn
    \/ Rescan

SpecUpdate == InitUpdate /\ [][NextUpdate]_vars

(***************************************************************************)
(* DocumentIntelligence.categorize_document (document_intelligence.py).    *)
(* A file name and a content are sequences of words; a pattern is in a     *)
(* text when it is a substring of one of its words.  The sample of the     *)
(* content is its first SampleWords words, as content[:1000] is its first  *)
(* 1000 characters.                                                        *)
(***************************************************************************)
MaxWords == 2      \* words of a file name and of a content at most

SampleWords == 1   \* the words of a content that are within content[:1000]

\* lines 24-67, in the order of the dict
CategoryNames ==
    <<"technical", "conversation", "correspondence", "reference",
      "literature", "data", "media">>

categories ==
    [technical |->
       [patterns |-> {"manual", "guide", "documentation", "readme", "install",
                      "setup", "config"},
        extensions |-> {".md", ".txt", ".pdf"},
        chunk_strategy |-> "section_aware", chunk_size |-> 1000],
     conversation |->
       [patterns |-> {"transcript", "chat", "conversation", "meeting", "call",
                      "interview"},
        extensions |-> {".txt", ".json", ".csv"},
        chunk_strategy |-> "conversation_aware", chunk_size |-> 800],
     correspondence |->
       [patterns |-> {"email", "memo", "letter", "message"},
        extensions |-> {".eml", ".msg", ".txt"},
        chunk_strategy |-> "message_boundary", chunk_size |-> 600],
     reference |->
       [patterns |-> {"api", "reference", "specification", "schema"},
        extensions |-> {".json", ".yaml", ".md"},
        chunk_strategy |-> "endpoint_aware", chunk_size |-> 500],
     literature |->
       [patterns |-> {"book", "chapter", "article", "paper", "journal"},
        extensions |-> {".epub", ".pdf", ".txt"},
        chunk_strategy |-> "chapter_aware", chunk_size |-> 1200],
     data |->
       [patterns |-> {"report", "analysis", "statistics", "metrics", "log"},
        extensions |-> {".csv", ".json", ".log", ".txt"},
        chunk_strategy |-> "record_aware", chunk_size |-> 400],
     media |->
       [patterns |-> {"subtitle", "caption", "lyrics", "script"},
        extensions |-> {".srt", ".vtt", ".txt"},
        chunk_strategy |-> "time_aware", chunk_size |-> 300]]

\* the words the file names and contents are made of, lower case
Words == {"guide", "transcript", "script", "chapter", "logs", "notes"}
Suffixes == {".md", ".txt", ".srt", ".bin"}

\* pattern in word: the patterns that are substrings of the words above
Substring(pattern, word) ==
    \/ pattern = word
    \/ pattern = "script" /\ word = "transcript"
    \/ pattern = "log" /\ word = "logs"

\* pattern in text
In(pattern, text) == \E k \in 1..Len(text) : Substring(pattern, text[k])

\* content[:1000]
Sample(content) == SubSeq(content, 1, Min(Len(content), SampleWords))

\* lines 79-95: the score of one category
Score(category, filepath, content) ==
    LET config == categories[category] IN
    10 * Cardinality({ pattern \in config.patterns : In(pattern, filepath.name) })
      + (IF filepath.suffix \in config.extensions THEN 5 ELSE 0)
      + 3 * Cardinality({ pattern \in config.patterns : In(pattern, Sample(content)) })

\* line 98: max(scores.items(), key=...) gives the first of the largest
BestCategory(filepath, content) ==
    LET k == CHOOSE k \in 1..Len(CategoryNames) :
               /\ \A j \in 1..Len(CategoryNames) :
                     Score(CategoryNames[j], filepath, content)
                       <= Score(CategoryNames[k], filepath, content)
               /\ \A j \in 1..(k - 1) :
                     Score(CategoryNames[j], filepath, content)
                       < Score(CategoryNames[k], filepath, content)
    IN CategoryNames[k]

\* line 123-133
_get_extractors(category) ==
    CASE category = "technical" -> <<"version", "product", "sections">>
      [] category = "conversation" -> <<"participants", "datetime", "topics">>
      [] category = "correspondence" -> <<"sender", "recipient", "date", "subject">>
      [] category = "reference" -> <<"endpoints", "methods", "parameters">>
      [] category = "literature" -> <<"author", "title", "chapters">>
      [] category = "data" -> <<"date_range", "metrics", "summary">>
      [] category = "media" -> <<"duration", "speakers", "timestamps">>
      [] OTHER -> <<"basic">>

\* the categorization that takes a best score of 5 for no match too
categorize_document_floor_above(filepath, content) ==
    LET best == BestCategory(filepath, content)
        score == Score(best, filepath, content)
    IN
    IF score <= 5
    THEN [category |-> "general", confidence |-> 6,
          chunk_strategy |-> "sliding_window", chunk_size |-> 800,
          metadata_extractors |-> <<"basic">>]
    ELSE [category |-> best, confidence |-> Min(score, 20),
          chunk_strategy |-> categories[best].chunk_strategy,
          chunk_size |-> categories[best].chunk_size,
          metadata_extractors |-> _get_extractors(best)]

\* lines 69-121; confidence in twentieths
categorize_document(filepath, content) ==
    LET best == BestCategory(filepath, content)
        score == Score(best, filepath, content)
    IN
    IF score < 5
    THEN [category |-> "general", confidence |-> 6,
          chunk_strategy |-> "sliding_window", chunk_size |-> 800,
          metadata_extractors |-> <<"basic">>]
    ELSE [category |-> best, confidence |-> Min(score, 20),
          chunk_strategy |-> categories[best].chunk_strategy,
          chunk_size |-> categories[best].chunk_size,
          metadata_extractors |-> _get_extractors(best)]

Texts == UNION { [1..n -> Words] : n \in 0..MaxWords }

InitCategorize ==
    /\ tasks = <<>> /\ active_task = NoTask /\ worker = <<>>
    /\ coll = [p \in Profiles |-> EmptyColl]
    /\ ret = [op |-> "none"] /\ hist = <<>> /\ returned = {}
    /\ rerun = NoRerun
    /\ NoCrawl
    /\ NoScan /\ NoChunk /\ NoSearch /\ NoRecords /\ NoLater
    /\ \E name \in Texts, suffix \in Suffixes, content \in Texts :
         dc = [pc |-> "call", filepath |-> [name |-> name, suffix |-> suffix],
               content |-> content]

Categorize ==
    /\ dc.pc = "call"
    /\ dc' = [pc |-> "done", filepath |-> dc.filepath, content |-> dc.content,
              result |-> categorize_document(dc.filepath, dc.content)]
    /\ UNCHANGED <<manager, rerun, crawler, updater, ck, retrieval, im, later>>

NextCategorize == Categorize

SpecCategorize == InitCategorize /\ [][NextCategorize]_vars

(***************************************************************************)
(* SmartChunker (document_intelligence.py) and _chunk (ingest.py).  A      *)
(* content is a sequence of units: the words "a" and "b", a heading line   *)
(* "#" and a rule line "---".  A chunk's text is the sequence of its       *)
(* words.  The contents have no speaker turn, endpoint, chapter heading,   *)
(* time stamp, comma or tab.                                               *)
(***************************************************************************)
MaxUnits == 4     \* units of a content given to SmartChunker.chunk at most
MaxMdWords == 52  \* words of a document given to _chunk at most

Units == {"a", "b", "#", "---"}
\* what section_pattern (line 308) and message_boundary (line 400) match
SectionMarkers == {"#", "---"}
MessageMarkers == {"---"}

\* str.split of one unit: a heading line is "#" and a title
WordsOf(unit) == IF unit = "#" THEN <<"#", "t">> ELSE <<unit>>

RECURSIVE split(_)
\* str.split: the words of a content
split(content) ==
    IF content = <<>> THEN <<>>
    ELSE WordsOf(Head(content)) \o split(Tail(content))

RECURSIVE re_split(_, _, _)
\* re.split with the pattern in a group: the texts between the matches
\* and the matches, in turn; text is the text since the last match
re_split(markers, content, text) ==
    IF content = <<>> THEN <<text>>
    ELSE IF Head(content) \in markers
         THEN <<text, <<Head(content)>>>> \o re_split(markers, Tail(content), <<>>)
         ELSE re_split(markers, Tail(content), Append(text, Head(content)))

\* lines 289-305
chunk_sliding_window(content, chunk_size, overlap) ==
    LET words == split(content)
        step == chunk_size - overlap
        count == IF words = <<>> THEN 0 ELSE ((Len(words) - 1) \div step) + 1
    IN [k \in 1..count |->
          LET i == (k - 1) * step IN
          [text |-> SubSeq(words, i + 1, Min(i + chunk_size, Len(words))),
           type |-> "sliding_window",
           start_idx |-> i, end_idx |-> Min(i + chunk_size, Len(words))]]

RECURSIVE SectionsLoop(_, _, _, _, _, _)
\* lines 315-346: the loop over the sections and the last chunk
SectionsLoop(sections, chunk_size, overlap, chunks, current_chunk, current_size) ==
    IF sections = <<>>
    THEN IF current_chunk # <<>>
         THEN Append(chunks, [text |-> current_chunk, type |-> "section",
                              boundary |-> "document_end"])
         ELSE chunks
    ELSE LET section_words == split(Head(sections))
             section_size == Len(section_words)
             flush == current_size + section_size > chunk_size /\ current_chunk # <<>>
             kept == IF overlap > 0 /\ Len(current_chunk) > overlap
                     THEN SubSeq(current_chunk, Len(current_chunk) - overlap + 1,
                                 Len(current_chunk))
                     ELSE <<>>
         IN IF flush
            THEN SectionsLoop(Tail(sections), chunk_size, overlap,
                              Append(chunks, [text |-> current_chunk, type |-> "section",
                                              boundary |-> "section_end"]),
                              kept \o section_words, Len(kept) + section_size)
            ELSE SectionsLoop(Tail(sections), chunk_size, overlap, chunks,
                              current_chunk \o section_words,
                              current_size + section_size)

\* lines 307-347
chunk_by_sections(content, chunk_size, overlap) ==
    LET sections == re_split(SectionMarkers, content, <<>>)
        chunks == SectionsLoop(sections, chunk_size, overlap, <<>>, <<>>, 0)
    IN IF chunks # <<>> THEN chunks
       ELSE chunk_sliding_window(content, chunk_size, overlap)

\* lines 349-357: re.findall gives no turn for these contents
chunk_by_conversation(content, chunk_size, overlap) ==
    chunk_sliding_window(content, chunk_size, overlap)

RECURSIVE MessagesLoop(_, _, _, _, _)
\* lines 407-428: the loop over the messages and the last chunk;
\* current_chunk is the list of the messages kept
MessagesLoop(messages, chunk_size, chunks, current_chunk, current_size) ==
    IF messages = <<>>
    THEN IF current_chunk # <<>>
         THEN Append(chunks, [text |-> split(current_chunk), type |-> "message",
                              boundary |-> "thread_end"])
         ELSE chunks
    ELSE LET msg == Head(messages)
             msg_size == Len(split(msg))
             flush == current_size + msg_size > chunk_size /\ current_chunk # <<>>
             chunks1 == IF flush
                        THEN Append(chunks, [text |-> split(current_chunk),
                                             type |-> "message",
                                             boundary |-> "message_end"])
                        ELSE chunks
             chunk1 == IF flush THEN <<>> ELSE current_chunk
             size1 == IF flush THEN 0 ELSE current_size
         IN IF msg # <<>>
            THEN MessagesLoop(Tail(messages), chunk_size, chunks1,
                              chunk1 \o msg, size1 + msg_size)
            ELSE MessagesLoop(Tail(messages), chunk_size, chunks1, chunk1, size1)

\* lines 397-430
chunk_by_messages(content, chunk_size, overlap) ==
    LET messages == re_split(MessageMarkers, content, <<>>)
        chunks == MessagesLoop(messages, chunk_size, <<>>, <<>>, 0)
    IN IF chunks # <<>> THEN chunks
       ELSE chunk_sliding_window(content, chunk_size, overlap)

\* lines 432-471: re.search finds none of endpoint_patterns in these
\* contents
chunk_by_endpoints(content, chunk_size, overlap) ==
    chunk_by_sections(content, chunk_size, overlap)

\* lines 473-510: re.search finds none of chapter_patterns in these contents
chunk_by_chapters(content, chunk_size, overlap) ==
    chunk_by_sections(content, chunk_size, overlap)

\* lines 512-544: no line of these contents has a comma or a tab
chunk_by_records(content, chunk_size, overlap) ==
    chunk_sliding_window(content, chunk_size, overlap)

\* lines 546-590: re.search finds none of timestamp_patterns in these
\* contents
chunk_by_timestamps(content, chunk_size, overlap) ==
    chunk_sliding_window(content, chunk_size, overlap)

\* lines 267-287: the strategy table and the dispatch
chunk(content, strategy, chunk_size, overlap) ==
    CASE strategy = "section_aware" -> chunk_by_sections(content, chunk_size, overlap)
      [] strategy = "conversation_aware" ->
           chunk_by_conversation(content, chunk_size, overlap)
      [] strategy = "message_boundary" -> chunk_by_messages(content, chunk_size, overlap)
      [] strategy = "endpoint_aware" -> chunk_by_endpoints(content, chunk_size, overlap)
      [] strategy = "chapter_aware" -> chunk_by_chapters(content, chunk_size, overlap)
      [] strategy = "record_aware" -> chunk_by_records(content, chunk_size, overlap)
      [] strategy = "time_aware" -> chunk_by_timestamps(content, chunk_size, overlap)
      [] OTHER -> chunk_sliding_window(content, chunk_size, overlap)

\* the chunker that takes a document of 50 words for too short as well
_chunk_over_50(md, tok, overlap) ==
    LET words == split(md)
        step == Max(tok - overlap, 1)
        count == ((Len(words) - 1) \div step) + 1
    IN IF Len(words) <= 50 THEN <<>>
       ELSE [k \in 1..count |->
               SubSeq(words, (k - 1) * step + 1,
                      Min((k - 1) * step + tok, Len(words)))]

\* ingest.py lines 43-52
_chunk(md, tok, overlap) ==
    LET words == split(md)
        step == Max(tok - overlap, 1)
        count == ((Len(words) - 1) \div step) + 1
    IN IF Len(words) < 50 THEN <<>>
       ELSE [k \in 1..count |->
               SubSeq(words, (k - 1) * step + 1,
                      Min((k - 1) * step + tok, Len(words)))]

Strategies ==
    {"sliding_window", "section_aware", "conversation_aware", "message_boundary",
     "endpoint_aware", "chapter_aware", "record_aware", "time_aware"}

InitChunk ==
    /\ tasks = <<>> /\ active_task = NoTask /\ worker = <<>>
    /\ coll = [p \in Profiles |-> EmptyColl]
    /\ ret = [op |-> "none"] /\ hist = <<>> /\ returned = {}
    /\ rerun = NoRerun
    /\ NoCrawl
    /\ NoScan /\ NoCategorize /\ NoSearch /\ NoRecords /\ NoLater
    /\ \E n \in 0..MaxUnits : \E content \in [1..n -> Units] :
       \E strategy \in Strategies, chunk_size \in {2, 3}, overlap \in {0, 1} :
         ck = [pc |-> "call", fn |-> "chunk", content |-> content,
               strategy |-> strategy, chunk_size |-> chunk_size,
               overlap |-> overlap]

\* SmartChunker.chunk(content, strategy, chunk_size, overlap)
Chunk ==
    /\ ck.pc = "call" /\ ck.fn = "chunk"
    /\ ck' = [ck EXCEPT !.pc = "done"]
               @@ [result |-> chunk(ck.content, ck.strategy, ck.chunk_size, ck.overlap)]
    /\ UNCHANGED <<manager, rerun, crawler, updater, dc, retrieval, im, later>>

NextChunk == Chunk

SpecChunk == InitChunk /\ [][NextChunk]_vars

\* a document of n words is given to _chunk and to chunk_sliding_window
InitMinWords ==
    /\ tasks = <<>> /\ active_task = NoTask /\ worker = <<>>
    /\ coll = [p \in Profiles |-> EmptyColl]
    /\ ret = [op |-> "none"] /\ hist = <<>> /\ returned = {}
    /\ rerun = NoRerun
    /\ NoCrawl
    /\ NoScan /\ NoCategorize /\ NoSearch /\ NoRecords /\ NoLater
    /\ \E n \in 0..MaxMdWords, fn \in {"_chunk", "chunk_sliding_window"} :
       \E chunk_size \in {40, 800}, overlap \in {0, 120} :
         /\ fn = "chunk_sliding_window" => overlap < chunk_size
         /\ ck = [pc |-> "call", fn |-> fn, content |-> [k \in 1..n |-> "a"],
                  chunk_size |-> chunk_size, overlap |-> overlap]

\* _chunk(md, tok, overlap)
IngestChunk ==
    /\ ck.pc = "call" /\ ck.fn = "_chunk"
    /\ ck' = [ck EXCEPT !.pc = "done"]
               @@ [result |-> _chunk(ck.content, ck.chunk_size, ck.overlap)]
    /\ UNCHANGED <<manager, rerun, crawler, updater, dc, retrieval, im, later>>

\* chunk_sliding_window(content, chunk_size, overlap)
SlidingWindow ==
    /\ ck.pc = "call" /\ ck.fn = "chunk_sliding_window"
    /\ ck' = [ck EXCEPT !.pc = "done"]
               @@ [result |-> chunk_sliding_window(ck.content, ck.chunk_size,
                                                   ck.overlap)]
    /\ UNCHANGED <<manager, rerun, crawler, updater, dc, retrieval, im, later>>

NextMinWords ==
    \/ IngestChunk
    \/ SlidingWindow

SpecMinWords == InitMinWords /\ [][NextMinWords]_vars

(***************************************************************************)
(* search(cfg, paths, question) (retriever/search.py).  The scores of BM25 *)
(* and of the embedder are not computed: a ranker returns some order of    *)
(* the snapshot's positions, cut at top_k, as np.argsort(...)[::-1][:top_k]*)
(* does.  Positions count from 1.  SnapshotLimit stands for the 200 of     *)
(* line 32.                                                                *)
(***************************************************************************)
MaxDocs == 4        \* documents in the collection at most
MaxK == 3           \* k_bm25, k_embed and combine_top_k at most

SnapshotLimit == 3  \* the limit of coll.get

\* the document with id n of the collection
Doc(n) == [id |-> n, document |-> <<"text", n>>, metadata |-> [chunk_index |-> n]]

\* np.argsort(scores)[::-1][:top_k]: the orders of top_k of the n positions
Rankings(n, top_k) ==
    { r \in [1..Min(top_k, n) -> 1..n] :
        \A i, j \in DOMAIN r : i # j => r[i] # r[j] }

RECURSIVE fromkeys(_, _)
\* list(dict.fromkeys(keys)): the first occurrence of each key, in order
fromkeys(keys, seen) ==
    IF keys = <<>> THEN <<>>
    ELSE IF Head(keys) \in seen THEN fromkeys(Tail(keys), seen)
         ELSE <<Head(keys)>> \o fromkeys(Tail(keys), seen \cup {Head(keys)})

\* lines 20-22
InitSearch ==
    /\ tasks = <<>> /\ active_task = NoTask /\ worker = <<>>
    /\ coll = [p \in Profiles |-> EmptyColl]
    /\ ret = [op |-> "none"] /\ hist = <<>> /\ returned = {}
    /\ rerun = NoRerun
    /\ NoCrawl
    /\ NoScan /\ NoCategorize /\ NoChunk /\ NoRecords /\ NoLater
    /\ \E n \in 0..MaxDocs : chroma = [k \in 1..n |-> Doc(k)]
    /\ \E k_bm25, k_embed, combine_top_k \in 1..MaxK :
         sr = [pc |-> "count",
               cfg |-> [k_bm25 |-> k_bm25, k_embed |-> k_embed,
                        combine_top_k |-> combine_top_k],
               count |-> 0, docs |-> <<>>, ids |-> <<>>, metadatas |-> <<>>,
               bm_idx |-> <<>>, em_idx |-> <<>>, calls |-> <<>>, out |-> <<>>]

\* lines 26-28
SearchCount ==
    /\ sr.pc = "count"
    /\ sr' = [sr EXCEPT !.count = Len(chroma),
                        !.pc = IF Len(chroma) = 0 THEN "returned" ELSE "get"]
    /\ UNCHANGED <<manager, rerun, crawler, updater, dc, ck, chroma, im, later>>

\* the snapshot read that goes on to rank whatever it got
SearchGetUnchecked ==
    /\ sr.pc = "get"
    /\ LET limit == Min(SnapshotLimit, sr.count)
           got == SubSeq(chroma, 1, limit)
       IN \E documents, metadatas \in BOOLEAN :
            /\ sr' = [sr EXCEPT
                 !.docs = IF documents THEN [k \in 1..limit |-> got[k].document]
                          ELSE <<>>,
                 !.ids = [k \in 1..limit |-> got[k].id],
                 !.metadatas = IF metadatas THEN [k \in 1..limit |-> got[k].metadata]
                               ELSE <<>>,
                 !.pc = "embedder"]
    /\ UNCHANGED <<manager, rerun, crawler, updater, dc, ck, chroma, im, later>>

\* lines 32-38: the first min(200, count) documents, or a result without
\* documents or without metadatas ("or []")
SearchGet ==
    /\ sr.pc = "get"
    /\ LET limit == Min(SnapshotLimit, sr.count)
           got == SubSeq(chroma, 1, limit)
       IN \E documents, metadatas \in BOOLEAN :
            LET docs == IF documents THEN [k \in 1..limit |-> got[k].document]
                        ELSE <<>>
            IN sr' = [sr EXCEPT
                 !.docs = docs,
                 !.ids = [k \in 1..limit |-> got[k].id],
                 !.metadatas = IF metadatas THEN [k \in 1..limit |-> got[k].metadata]
                               ELSE <<>>,
                 !.pc = IF docs = <<>> THEN "returned" ELSE "embedder"]
    /\ UNCHANGED <<manager, rerun, crawler, updater, dc, ck, chroma, im, later>>

\* line 44
SearchEmbedder ==
    /\ sr.pc = "embedder"
    /\ sr' = [sr EXCEPT !.calls = Append(@, "SentenceTransformer"), !.pc = "bm25"]
    /\ UNCHANGED <<manager, rerun, crawler, updater, dc, ck, chroma, im, later>>

\* line 45 and _bm25_rank (lines 8-12)
SearchBm25 ==
    /\ sr.pc = "bm25"
    /\ \E r \in Rankings(Len(sr.docs), Min(sr.cfg.k_bm25, Len(sr.docs))) :
         sr' = [sr EXCEPT !.bm_idx = r, !.calls = Append(@, "_bm25_rank"),
                          !.pc = "embed"]
    /\ UNCHANGED <<manager, rerun, crawler, updater, dc, ck, chroma, im, later>>

\* line 46 and _top_k_embed (lines 14-18)
SearchEmbed ==
    /\ sr.pc = "embed"
    /\ \E r \in Rankings(Len(sr.docs), Min(sr.cfg.k_embed, Len(sr.docs))) :
         sr' = [sr EXCEPT !.em_idx = r, !.calls = Append(@, "_top_k_embed"),
                          !.pc = "merge"]
    /\ UNCHANGED <<manager, rerun, crawler, updater, dc, ck, chroma, im, later>>

\* the merge that keeps every entry of both rankings
SearchMergeAll ==
    /\ sr.pc = "merge"
    /\ LET merged == SubSeq(sr.bm_idx \o sr.em_idx, 1,
                            Min(sr.cfg.combine_top_k, Len(sr.bm_idx \o sr.em_idx)))
       IN sr' = [sr EXCEPT
            !.out = [k \in 1..Len(merged) |->
                       LET i == merged[k] IN
                       [id |-> sr.ids[i], document |-> sr.docs[i],
                        metadata |-> IF i <= Len(sr.metadatas) THEN sr.metadatas[i]
                                     ELSE <<>>]],
            !.pc = "returned"]
    /\ UNCHANGED <<manager, rerun, crawler, updater, dc, ck, chroma, im, later>>

\* the merge with the semantic ranking first
SearchMergeSemanticFirst ==
    /\ sr.pc = "merge"
    /\ LET keys == fromkeys(sr.em_idx \o sr.bm_idx, {})
           merged == SubSeq(keys, 1, Min(sr.cfg.combine_top_k, Len(keys)))
       IN sr' = [sr EXCEPT
            !.out = [k \in 1..Len(merged) |->
                       LET i == merged[k] IN
                       [id |-> sr.ids[i], document |-> sr.docs[i],
                        metadata |-> IF i <= Len(sr.metadatas) THEN sr.metadatas[i]
                                     ELSE <<>>]],
            !.pc = "returned"]
    /\ UNCHANGED <<manager, rerun, crawler, updater, dc, ck, chroma, im, later>>

\* lines 48-50
SearchMerge ==
    /\ sr.pc = "merge"
    /\ LET keys == fromkeys(sr.bm_idx \o sr.em_idx, {})
           merged == SubSeq(keys, 1, Min(sr.cfg.combine_top_k, Len(keys)))
       IN sr' = [sr EXCEPT
            !.out = [k \in 1..Len(merged) |->
                       LET i == merged[k] IN
                       [id |-> sr.ids[i], document |-> sr.docs[i],
                        metadata |-> IF i <= Len(sr.metadatas) THEN sr.metadatas[i]
                                     ELSE <<>>]],
            !.pc = "returned"]
    /\ UNCHANGED <<manager, rerun, crawler, updater, dc, ck, chroma, im, later>>

NextSearch ==
    \/ SearchCount
    \/ SearchGet
    \/ SearchEmbedder
    \/ SearchBm25
    \/ SearchEmbed
    \/ SearchMerge

SpecSearch == InitSearch /\ [][NextSearch]_vars

(***************************************************************************)
(* The chunk records of _run_ingestion (ingestion_manager.py, lines        *)
(* 301-352) and their upsert (lines 374-397).  A Python value is a record  *)
(* of its type t and its value v: a str is a sequence of pieces, a float   *)
(* is counted in tenths, a list is a sequence of values, a dict a sequence *)
(* of <<key, value>>.                                                      *)
(***************************************************************************)
MaxKeys == 1        \* keys of the extracted metadata at most
MaxChunks == 2      \* chunks of the document at most

Str(v) == [t |-> "str", v |-> v]
Int_(v) == [t |-> "int", v |-> v]
PyNone == [t |-> "NoneType", v |-> 0]

\* the values a metadata map or a chunk may hold
PyValues ==
    { Str(<<"a">>), Int_(1), [t |-> "float", v |-> 15], [t |-> "bool", v |-> TRUE],
      PyNone,
      [t |-> "list", v |-> <<Str(<<"a">>), Str(<<"b">>)>>],
      [t |-> "list", v |-> <<Str(<<"a">>), Int_(1)>>],
      [t |-> "dict", v |-> << <<"k", Int_(1)>> >>],
      [t |-> "tuple", v |-> <<Int_(1)>>] }

\* isinstance(v, (str, int, float, bool))
Primitive(v) == v.t \in {"str", "int", "float", "bool"}

RECURSIVE join(_, _)
\* sep.join(strs) for a sequence of sequences of pieces
join(sep, strs) ==
    IF strs = <<>> THEN <<>>
    ELSE IF Len(strs) = 1 THEN strs[1]
         ELSE strs[1] \o <<sep>> \o join(sep, Tail(strs))

RECURSIVE dumps(_)
\* json.dumps(v), as a sequence of pieces
dumps(v) ==
    CASE v.t = "str" -> <<"\"">> \o v.v \o <<"\"">>
      [] v.t = "int" -> <<ToString(v.v)>>
      [] v.t = "float" -> <<ToString(v.v \div 10), ".", ToString(v.v % 10)>>
      [] v.t = "bool" -> IF v.v THEN <<"true">> ELSE <<"false">>
      [] v.t = "NoneType" -> <<"null">>
      [] v.t \in {"list", "tuple"} ->
           <<"[">> \o join(", ", [k \in 1..Len(v.v) |-> dumps(v.v[k])]) \o <<"]">>
      [] v.t = "dict" ->
           <<"{">> \o join(", ", [k \in 1..Len(v.v) |->
                       <<"\"", v.v[k][1], "\"", ": ">> \o dumps(v.v[k][2])])
                  \o <<"}">>

RECURSIVE repr(_)
\* repr(v), as a sequence of pieces
repr(v) ==
    CASE v.t = "str" -> <<"'">> \o v.v \o <<"'">>
      [] v.t = "int" -> <<ToString(v.v)>>
      [] v.t = "float" -> <<ToString(v.v \div 10), ".", ToString(v.v % 10)>>
      [] v.t = "bool" -> IF v.v THEN <<"True">> ELSE <<"False">>
      [] v.t = "NoneType" -> <<"None">>
      [] v.t = "list" ->
           <<"[">> \o join(", ", [k \in 1..Len(v.v) |-> repr(v.v[k])]) \o <<"]">>
      [] v.t = "tuple" ->
           <<"(">> \o join(", ", [k \in 1..Len(v.v) |-> repr(v.v[k])])
                  \o (IF Len(v.v) = 1 THEN <<",">> ELSE <<>>) \o <<")">>
      [] v.t = "dict" ->
           <<"{">> \o join(", ", [k \in 1..Len(v.v) |->
                       <<"'", v.v[k][1], "'", ": ">> \o repr(v.v[k][2])])
                  \o <<"}">>

\* str(v)
str(v) == IF v.t = "str" THEN v.v ELSE repr(v)

\* the cleaning that has no branch for lists
clean_value_lists_kept(v) ==
    IF v.t = "NoneType" THEN {}
    ELSE IF Primitive(v) \/ v.t = "list" THEN {v}
    ELSE IF v.t = "dict" THEN {Str(dumps(v))}
    ELSE {Str(str(v))}

\* lines 307-324: what clean_metadata gets for a value, nothing for None
clean_value(v) ==
    IF v.t = "NoneType" THEN {}
    ELSE IF Primitive(v) THEN {v}
    ELSE IF v.t = "list"
         THEN IF \A k \in 1..Len(v.v) : v.v[k].t = "str"
              THEN {Str(join(", ", [k \in 1..Len(v.v) |-> v.v[k].v]))}
              ELSE {Str(dumps(v))}
    ELSE IF v.t = "dict" THEN {Str(dumps(v))}
    ELSE {Str(str(v))}

\* lines 305-324
clean_metadata(metadata) ==
    [k \in {key \in DOMAIN metadata : clean_value(metadata[key]) # {}} |->
        CHOOSE c \in clean_value(metadata[k]) : TRUE]

\* lines 336-342: what chunk_metadata gets for a value of the chunk
chunk_value(val) ==
    IF Primitive(val) THEN {val}
    ELSE IF val.t = "list"
         THEN {Str(join(", ", [k \in 1..Len(val.v) |-> str(val.v[k])]))}
    ELSE IF val.t # "NoneType" THEN {Str(str(val))}
    ELSE {}

\* line 334
ChunkKeys == {"speakers", "endpoint", "chapter", "record_count"}

\* lines 326-346
chunk_metadata(metadata, filename, source_type, chunk_data, index) ==
    LET kept == { key \in ChunkKeys \cap DOMAIN chunk_data :
                    chunk_value(chunk_data[key]) # {} }
    IN (IF source_type = "web" THEN [k \in {"source_url"} |-> Str(filename)]
        ELSE <<>>)
       @@ [key \in kept |-> CHOOSE c \in chunk_value(chunk_data[key]) : TRUE]
       @@ [k \in {"source"} |-> Str(filename)]
       @@ [k \in {"chunk_type"} |->
             IF "type" \in DOMAIN chunk_data THEN chunk_data["type"]
             ELSE Str(<<"unknown">>)]
       @@ [k \in {"chunk_index"} |-> Int_(index)]
       @@ clean_metadata(metadata)

\* the keys extract_metadata may fill, lines 135-155
ExtractedKeys == <<"version", "key_terms">>

\* lines 283-288: an extracted map with category and source_type set
Metadatas(source_type) ==
    LET keys == { ExtractedKeys[k] : k \in 1..Min(MaxKeys, Len(ExtractedKeys)) }
    IN { m @@ [k \in {"category"} |-> Str(<<"general">>)]
           @@ [k \in {"source_type"} |-> Str(<<source_type>>)] :
         m \in UNION { [K -> PyValues] : K \in SUBSET keys } }

\* the chunks of the chunkers: text, mostly a type, and at most one of the
\* keys of line 334
ChunkDatas ==
    LET text == [k \in {"text"} |-> Str(<<"a">>)]
        types == { <<>>, [k \in {"type"} |-> Str(<<"conversation">>)] }
        own == {<<>>} \cup { [k \in {key} |-> v] :
                               key \in {"speakers", "record_count"}, v \in PyValues }
    IN { text @@ ty @@ o : ty \in types, o \in own }

\* lines 262-300: one document with its metadata and its chunks
InitRecords ==
    /\ tasks = <<>> /\ active_task = NoTask /\ worker = <<>>
    /\ coll = [p \in Profiles |-> EmptyColl]
    /\ ret = [op |-> "none"] /\ hist = <<>> /\ returned = {}
    /\ rerun = NoRerun
    /\ NoCrawl
    /\ NoScan /\ NoCategorize /\ NoChunk /\ NoSearch /\ NoLater
    /\ \E source_type \in {"local", "web"} :
       \E metadata \in Metadatas(source_type) :
       \E n \in 0..MaxChunks : \E chunks \in [1..n -> ChunkDatas] :
         im = [pc |-> "chunks", filename |-> <<"f">>, source_type |-> source_type,
               metadata |-> metadata, chunks |-> chunks,
               all_chunks |-> <<>>, i |-> 0, upserted |-> <<>>]

\* lines 302-352: the next chunk's record
ChunkRecord ==
    /\ im.pc = "chunks"
    /\ Len(im.all_chunks) < Len(im.chunks)
    /\ LET chunk_data == im.chunks[Len(im.all_chunks) + 1]
           index == Len(im.all_chunks)
       IN im' = [im EXCEPT !.all_chunks = Append(@,
                    [id |-> <<im.filename, index, chunk_data["text"].v>>,
                     text |-> chunk_data["text"],
                     metadata |-> chunk_metadata(im.metadata, im.filename,
                                     im.source_type, chunk_data, index)])]
    /\ UNCHANGED <<manager, rerun, crawler, updater, dc, ck, retrieval, later>>

\* lines 365-374: cancelled before indexing, or on to the batches
RecordsDone ==
    /\ im.pc = "chunks"
    /\ Len(im.all_chunks) = Len(im.chunks)
    /\ \E cancel_requested \in BOOLEAN :
         im' = [im EXCEPT !.pc = IF cancel_requested THEN "cancelled" ELSE "indexing"]
    /\ UNCHANGED <<manager, rerun, crawler, updater, dc, ck, retrieval, later>>

\* lines 377-397: one batch, unless cancelled
UpsertRecords ==
    /\ im.pc = "indexing"
    /\ im.i < Len(im.all_chunks)
    /\ \E cancel_requested \in BOOLEAN :
         IF cancel_requested
         THEN im' = [im EXCEPT !.pc = "cancelled"]
         ELSE LET batch == SubSeq(im.all_chunks, im.i + 1,
                                  Min(im.i + batch_size, Len(im.all_chunks)))
              IN im' = [im EXCEPT
                   !.upserted = @ \o [k \in 1..Len(batch) |-> batch[k].metadata],
                   !.i = im.i + batch_size]
    /\ UNCHANGED <<manager, rerun, crawler, updater, dc, ck, retrieval, later>>

\* the loop of line 377 is over
UpsertRecordsDone ==
    /\ im.pc = "indexing"
    /\ im.i >= Len(im.all_chunks)
    /\ im' = [im EXCEPT !.pc = "indexed"]
    /\ UNCHANGED <<manager, rerun, crawler, updater, dc, ck, retrieval, later>>

NextRecords ==
    \/ ChunkRecord
    \/ RecordsDone
    \/ UpsertRecords
    \/ UpsertRecordsDone

SpecRecords == InitRecords /\ [][NextRecords]_vars

(***************************************************************************)
(* Properties                                                              *)
(***************************************************************************)
NonTerminal(t) == tasks[t].status \notin Terminal

\* a step that is a start_ingestion(p, _) call (a repeated call that returns
\* the same id again changes nothing at all)
StartStep(p) ==
    /\ ret' # ret
    /\ ret'.op = "start_ingestion"
    /\ ret'.profile = p

\* the place of a status in IDLE, PREPARING, SCANNING, PROCESSING, INDEXING,
\* terminal
Rank(status) ==
    CASE status = "IDLE" -> 0
      [] status = "PREPARING" -> 1
      [] status = "SCANNING" -> 2
      [] status = "PROCESSING" -> 3
      [] status = "INDEXING" -> 4
      [] status \in Terminal -> 5

\* C1: at most one task per profile is non-terminal at any time, and
\* start_ingestion(p) called while a task of profile p is non-terminal
\* returns that task's id, registers no task and starts no worker thread.
C1_OneTaskPerProfile ==
    [][ /\ \A a, b \in DOMAIN tasks' :
             (/\ tasks'[a].profile_name = tasks'[b].profile_name
              /\ tasks'[a].status \notin Terminal
              /\ tasks'[b].status \notin Terminal) => a = b
        /\ \A p \in Profiles : \A t \in DOMAIN tasks :
             (StartStep(p) /\ tasks[t].profile_name = p /\ NonTerminal(t))
                => /\ ret'.task_id = t
                   /\ tasks' = tasks
                   /\ DOMAIN worker' = DOMAIN worker ]_vars

\* C2: the status of a task only moves forward along PREPARING, SCANNING,
\* PROCESSING, INDEXING, terminal; it skips a phase only to FAILED or
\* CANCELLED; a terminal status never changes; a task is registered in
\* PREPARING.
C2_StatusForward ==
    [][ \A t \in DOMAIN tasks :
          LET old == tasks[t].status
              new == tasks'[t].status
          IN /\ old \in Terminal => new = old
             /\ Rank(new) >= Rank(old)
             /\ (new # old /\ new \notin {"FAILED", "CANCELLED"})
                   => Rank(new) = Rank(old) + 1
             /\ old # "IDLE" ]_vars

C2_Witness ==
    \E t \in DOMAIN tasks :
        /\ tasks[t].status = "COMPLETED"
        /\ worker[t].pc = "done"
        /\ hist[t].upserts >= 2

\* C3: a cancellation request accepted while the task is PROCESSING ends in
\* CANCELLED, and when the worker sees the flag in PROCESSING
\* processed_files is at most the number of work items whose processing
\* had completed.
C3_CancelInProcessing ==
    [][ \A t \in DOMAIN tasks :
          /\ (/\ "PROCESSING" \in hist[t].cancelled_in
              /\ tasks[t].status = "PROCESSING"
              /\ tasks'[t].status = "CANCELLED")
                => tasks'[t].processed_files <= hist'[t].finished
          /\ (worker'[t].pc = "done" /\ "PROCESSING" \in hist'[t].cancelled_in)
                => tasks'[t].status = "CANCELLED" ]_vars

\* the ids of the chunks the worker has upserted so far
UpsertedIds(t) == Ids(Slice(worker[t].all_chunks, 0, worker[t].b))

\* C4: in the step in which the worker sees cancel_requested, and in every
\* later step, the worker takes up no work item, finishes none, upserts no
\* batch and deletes nothing; the status is CANCELLED, the worker is done,
\* the index is what it was, and it holds the chunks of the batches
\* upserted before; once CANCELLED the worker's locals stay as they are.
C4_CancelStopsWork ==
    [][ \A t \in DOMAIN tasks :
          tasks'[t].status = "CANCELLED"
             => /\ hist'[t].items = hist[t].items
                /\ hist'[t].finished = hist[t].finished
                /\ hist'[t].upserts = hist[t].upserts
                /\ hist'[t].deletes = hist[t].deletes
                /\ worker'[t].pc = "done"
                /\ coll' = coll
                /\ IF tasks[t].status = "CANCELLED"
                   THEN worker'[t] = worker[t]
                   ELSE /\ tasks[t].cancel_requested
                        /\ UpsertedIds(t) \subseteq Ids(coll[tasks[t].profile_name].ids) ]_vars

C4_Witness ==
    \E t \in DOMAIN tasks :
        /\ tasks[t].status = "CANCELLED"
        /\ hist[t].upserts >= 1
        /\ tasks[t].indexed_chunks < tasks[t].total_chunks
        /\ UpsertedIds(t) # {}

\* C5 as stated: after a cancellation request accepted in SCANNING the task
\* goes from SCANNING to CANCELLED; it is never PROCESSING or INDEXING, no
\* work item is taken up and nothing is upserted.
C5_ScanningCancelDirect ==
    [][ \A t \in DOMAIN tasks :
          "SCANNING" \in hist'[t].cancelled_in
             => /\ tasks'[t].status \in {"SCANNING", "CANCELLED"}
                /\ hist'[t].items = 0
                /\ hist'[t].upserts = 0 ]_vars

\* C5, amended: after a cancellation request accepted in SCANNING no work
\* item is taken up, nothing is upserted and the task is never INDEXING or
\* COMPLETED; the worker ends in CANCELLED, or in FAILED when the scan
\* raises; the check after the scan, when it finds the flag, goes from
\* SCANNING to CANCELLED, and the task is PROCESSING only when the request
\* came after that check.
C5_ScanningCancelNoWork ==
    [][ \A t \in DOMAIN tasks :
          "SCANNING" \in hist'[t].cancelled_in
             => /\ tasks'[t].status \in {"SCANNING", "PROCESSING", "CANCELLED", "FAILED"}
                /\ hist'[t].items = 0
                /\ hist'[t].upserts = 0
                /\ worker'[t].pc = "done" => tasks'[t].status \in {"CANCELLED", "FAILED"}
                /\ (worker[t].pc = "check_scan" /\ tasks[t].cancel_requested
                    /\ worker'[t].pc # "check_scan")
                      => tasks[t].status = "SCANNING" /\ tasks'[t].status = "CANCELLED"
                /\ (tasks'[t].status = "PROCESSING" /\ worker[t].pc = "check_scan")
                      => ~tasks[t].cancel_requested ]_vars

C5_Witness ==
    \E t \in DOMAIN tasks :
        /\ hist[t].cancelled_in = {"SCANNING"}
        /\ tasks[t].status = "CANCELLED"
        /\ tasks[t].total_files >= 2
        /\ worker[t].i = 0

\* C6: an exception while one work item is processed appends exactly one
\* error, leaves the status PROCESSING and the loop goes on with the next
\* item; a local file without content appends one warning and no error and
\* adds no chunk; a worker that is past the loop has finished every item.
C6_ItemErrorsAreLocal ==
    [][ \A t \in DOMAIN tasks :
          /\ (worker[t].pc = "item" /\ tasks'[t].errors # tasks[t].errors)
                => /\ Len(tasks'[t].errors) = Len(tasks[t].errors) + 1
                   /\ SubSeq(tasks'[t].errors, 1, Len(tasks[t].errors)) = tasks[t].errors
                   /\ tasks'[t].status = "PROCESSING"
                   /\ worker'[t].pc = "next_item"
                   /\ worker'[t].i = worker[t].i + 1
                   /\ tasks'[t].warnings = tasks[t].warnings
          /\ (worker[t].pc = "item" /\ tasks'[t].warnings # tasks[t].warnings)
                => /\ worker[t].all_files[worker[t].i + 1].type = "local"
                   /\ Len(tasks'[t].warnings) = Len(tasks[t].warnings) + 1
                   /\ tasks'[t].errors = tasks[t].errors
                   /\ worker'[t].all_chunks = worker[t].all_chunks
                   /\ tasks'[t].status = "PROCESSING"
                   /\ worker'[t].pc = "next_item"
                   /\ worker'[t].i = worker[t].i + 1
          /\ tasks'[t].status \in {"INDEXING", "COMPLETED"}
                => hist'[t].finished = Len(worker'[t].all_files) ]_vars

C6_Witness ==
    \E t \in DOMAIN tasks :
        /\ tasks[t].status = "COMPLETED"
        /\ Len(tasks[t].errors) >= 1
        /\ Len(tasks[t].warnings) >= 1
        /\ tasks[t].total_files = 2
        /\ hist[t].finished = 2

IsFatal(e) == e = <<"Fatal error">>

\* C7: the status becomes FAILED only from PREPARING, SCANNING or INDEXING,
\* by an exception outside the per-item guard; the handler appends one
\* "Fatal error" entry, the last of the list, and the worker is done: it
\* takes up no further item and upserts nothing more.
C7_FatalOnlyOutsideGuard ==
    [][ \A t \in DOMAIN tasks :
          /\ (tasks'[t].status = "FAILED" /\ tasks[t].status # "FAILED")
                => /\ tasks[t].status \in {"PREPARING", "SCANNING", "INDEXING"}
                   /\ worker[t].pc # "item"
                   /\ tasks'[t].errors = tasks[t].errors
                   /\ worker'[t].pc = "except"
          /\ (tasks'[t].status = "FAILED" /\ worker'[t].pc = "done")
                => /\ tasks'[t].errors # <<>>
                   /\ IsFatal(tasks'[t].errors[Len(tasks'[t].errors)])
                   /\ Cardinality({k \in 1..Len(tasks'[t].errors) :
                                     IsFatal(tasks'[t].errors[k])}) = 1
          /\ tasks'[t].status # "FAILED"
                => \A k \in 1..Len(tasks'[t].errors) : ~IsFatal(tasks'[t].errors[k])
          /\ tasks[t].status = "FAILED"
                => /\ hist'[t] = hist[t]
                   /\ coll' = coll
                   /\ DOMAIN tasks' = DOMAIN tasks ]_vars

C7_Witness ==
    \E t \in DOMAIN tasks :
        /\ tasks[t].status = "FAILED"
        /\ worker[t].pc = "done"
        /\ Len(tasks[t].errors) = 2
        /\ hist[t].upserts = 1

\* C8: progress is 1.0 only in COMPLETED; in every other status it is at
\* most 0.95, and up to PROCESSING below 0.7.
C8_ProgressBelowOne ==
    \A t \in DOMAIN tasks :
        /\ tasks[t].progress = 1000 => tasks[t].status = "COMPLETED"
        /\ tasks[t].progress \in 0..1000
        /\ tasks[t].status # "COMPLETED" => tasks[t].progress <= 950
        /\ tasks[t].status \in {"PREPARING", "SCANNING", "PROCESSING"}
              => tasks[t].progress < 700

C8_Witness ==
    \E t \in DOMAIN tasks :
        /\ tasks[t].status = "INDEXING"
        /\ tasks[t].progress = 950
        /\ tasks[t].indexed_chunks = tasks[t].total_chunks

IsPrefix(s1, s2) == Len(s1) <= Len(s2) /\ SubSeq(s2, 1, Len(s1)) = s1

\* C9: no step decreases processed_files, total_files, total_chunks,
\* indexed_chunks or progress of a task, and the errors and warnings lists
\* only grow; so no two get_task_status reads see a counter go back.
C9_CountersMonotonic ==
    [][ \A t \in DOMAIN tasks :
          LET old == get_task_status(t).dict
              new == [found |-> TRUE, dict |-> to_dict(tasks'[t])].dict
          IN /\ new.processed_files >= old.processed_files
             /\ new.total_files >= old.total_files
             /\ new.total_chunks >= old.total_chunks
             /\ new.indexed_chunks >= old.indexed_chunks
             /\ new.progress >= old.progress
             /\ IsPrefix(old.errors, new.errors)
             /\ IsPrefix(old.warnings, new.warnings) ]_vars

\* C10: every id start_ingestion has returned is in the registry and
\* get_task_status of it returns the snapshot of that task, whatever its
\* status and whatever was started since; get_task_status of any other id
\* returns None.
C10_ReturnedIdsStayQueryable ==
    /\ \A id \in returned :
         /\ get_task_status(id).found
         /\ get_task_status(id).dict.id = id
         /\ get_task_status(id).dict.status = tasks[id].status
    /\ \A id \in (1..(MaxTasks + 1)) \ returned : ~get_task_status(id).found

C10_Witness ==
    \E a, b \in returned :
        /\ a < b
        /\ tasks[a].status \in Terminal
        /\ tasks[b].status = "COMPLETED"
        /\ ret.op = "start_ingestion" /\ ret.task_id > b

\* C11: whenever get_active_task returns a task, that task is not terminal;
\* once the task started last is COMPLETED, FAILED or CANCELLED the query
\* returns None.
C11_ActiveOnlyWhileRunning ==
    get_active_task.found => get_active_task.dict.status \notin Terminal

\* the ids of the chunks of the document file in all_chunks, in order
DocIds(all_chunks, file) ==
    LET k == CHOOSE k \in 1..Len(all_chunks) : all_chunks[k].file = file
    IN [j \in 1..all_chunks[k].count |-> ChunkRecords(all_chunks[k])[j].id]

DocsOf(all_chunks) == { [file |-> all_chunks[k].file, count |-> all_chunks[k].count] :
                          k \in 1..Len(all_chunks) }

\* C12: a document with the same origin and the same content in both runs
\* has the same chunk ids in both, whatever else the runs process before
\* it, and within a run two documents of different origins differ in the
\* origin part of their ids.
C12_IdsFromOwnDocument ==
    rerun.run = 3 =>
        /\ \A doc \in DocsOf(rerun.all_chunks[1]) \cap DocsOf(rerun.all_chunks[2]) :
              DocIds(rerun.all_chunks[1], doc.file) = DocIds(rerun.all_chunks[2], doc.file)
        /\ \A r \in {1, 2} : \A d1, d2 \in DocsOf(rerun.all_chunks[r]) :
              d1.file # d2.file
                 => DocIds(rerun.all_chunks[r], d1.file)[1][1]
                       # DocIds(rerun.all_chunks[r], d2.file)[1][1]

\* C13: when the second run goes over the same work items with the same
\* content in the same order, it upserts the ids the first run upserted and
\* the collection holds after it exactly the ids it held before it.
C13_RerunSameIds ==
    (rerun.run = 3 /\ rerun.items[1] = rerun.items[2])
        => /\ Ids(Slice(rerun.all_chunks[2], 0, ChunkLen(rerun.all_chunks[2])))
                = Ids(Slice(rerun.all_chunks[1], 0, ChunkLen(rerun.all_chunks[1])))
           /\ Ids(rerun.ids) = Ids(rerun.index1)

C13_Witness ==
    /\ rerun.run = 3 /\ rerun.items[1] = rerun.items[2]
    /\ Len(rerun.items[1]) = 2
    /\ ChunkLen(rerun.all_chunks[2]) > batch_size
    /\ Cardinality(Ids(rerun.ids)) = ChunkLen(rerun.all_chunks[2])

\* the keys of the output map
OutUrls(out) == { out[k].url : k \in 1..Len(out) }

\* the urls a GET, a cache read or an entry of out has been made for
Touched == { u \in SiteUrls : net.gets[u] > 0 \/ u \in net.reads \/ u \in OutUrls(cw.out) }

\* url is on the start url's host and its path has one of the allowed
\* prefixes, or there are none
OnHostAndPath(url) ==
    /\ url.host = cw.args.start_url.host
    /\ \/ cw.args.allowed_paths = <<>>
       \/ \E k \in 1..Len(cw.args.allowed_paths) :
             LET prefix == cw.args.allowed_paths[k] IN
             /\ Len(prefix) <= Len(url.path)
             /\ \A j \in 1..Len(prefix) : url.path[j] = prefix[j]

\* C14: no page GET, no cache read and no entry of out is made for a url
\* of another host or, with allowed_paths given, of a path with none of
\* the prefixes; with no allowed_paths every url of the start host that
\* is taken from the frontier for the first time goes on to the robots
\* check.
C14_OnlyAllowedTouched ==
    [][ /\ \A u \in SiteUrls :
             (net'.gets[u] > 0 \/ u \in net'.reads \/ u \in OutUrls(cw'.out))
                => OnHostAndPath(u)
        /\ ( /\ cw.pc = "loop" /\ cw.frontier # <<>>
             /\ cw.args.allowed_paths = <<>>
             /\ cw.frontier[1].url.host = cw.args.start_url.host
             /\ cw.frontier[1].url \notin cw.seen )
            => cw'.pc = "robots" ]_vars

\* the crawl has returned, and the links of the start page, which name a
\* url of another host and under allowed_paths a url outside them, were
\* taken
C14_Witness ==
    /\ cw.pc = "returned" /\ cw.args.max_depth >= 1
    /\ cw.args.allowed_paths # <<>>
    /\ Len(cw.out) >= 1 /\ cw.out[1].url = cw.args.start_url
    /\ cw.out[1].html.links = <<UrlX, UrlRoot>>
    /\ cw.out[1].html.taken = 2
    /\ Touched = {cw.args.start_url}

\* url has a path robots.txt disallows
Disallowed(url) ==
    /\ cw.args.start_url.host \in DOMAIN robots_cache
    /\ robots_cache[cw.args.start_url.host].valid
    /\ \E prefix \in robots_cache[cw.args.start_url.host].disallow :
         /\ Len(prefix) <= Len(url.path)
         /\ SubSeq(url.path, 1, Len(prefix)) = prefix

\* the site of three pages: the start page at the root links to two pages
\* of the host, the crawl goes to depth 1, no page is refused and no cache
\* file raises
ThreePages ==
    /\ cw.args.start_url = UrlRoot /\ cw.args.max_depth = 1
    /\ UrlRoot \in DOMAIN web /\ web[UrlRoot].kind = "ok"
    /\ web[UrlRoot].html.links \in {<<UrlD, UrlDA>>, <<UrlDA, UrlD>>}
    /\ web[UrlRoot].html.taken = 2
    /\ net.faults = 0
    /\ \A u \in {UrlD, UrlDA} :
         \/ u \in DOMAIN cache_dir
         \/ u \in DOMAIN web /\ web[u].kind = "ok"
         \/ Disallowed(u)

\* C15: a url whose path the retrieved robots.txt disallows gets no page
\* GET and no entry of out, cached or not; a url it allows goes from the
\* robots check on to the cache and the fetch; and the crawl of the three
\* pages with one of the two links disallowed returns the root and the
\* allowed link.
C15_RobotsRespected ==
    [][ /\ \A u \in SiteUrls :
             Disallowed(u)' => /\ net'.gets[u] = 0
                               /\ u \notin OutUrls(cw'.out)
        /\ (cw.pc = "robots" /\ cw'.pc # "robots" /\ ~Disallowed(cw.url))
              => cw'.pc = "read"
        /\ (cw'.pc = "returned" /\ cw'.call = 1 /\ ThreePages' /\ Disallowed(UrlDA)')
              => OutUrls(cw'.out) = {UrlRoot, UrlD} ]_vars

C15_Witness ==
    /\ cw.pc = "returned" /\ cw.call = 1 /\ ThreePages
    /\ Disallowed(UrlDA) /\ UrlDA \in DOMAIN cache_dir
    /\ OutUrls(cw.out) = {UrlRoot, UrlD}

\* C16: in one call no url gets more than one page GET and none is put
\* in out more than once, however often it is linked to and enqueued.
C16_EachUrlOnce ==
    \A u \in SiteUrls : net.gets[u] <= 1 /\ net.adds[u] <= 1

\* the start page links twice to a page, or to a page that links back
C16_Witness ==
    /\ cw.pc = "returned" /\ cw.args.max_depth = 2
    /\ Len(cw.out) = 2 /\ cw.out[1].url = UrlRoot /\ cw.out[2].url = UrlD
    /\ \/ cw.out[1].html = [links |-> <<UrlD, UrlD>>, taken |-> 2]
       \/ /\ cw.out[1].html = [links |-> <<UrlD>>, taken |-> 1]
          /\ cw.out[2].html = [links |-> <<UrlRoot>>, taken |-> 1]
    /\ net.gets[UrlD] = 1 /\ net.adds[UrlD] = 1 /\ net.adds[UrlRoot] = 1

\* the output map as a set of pairs
OutMap(out) == { out[k] : k \in 1..Len(out) }

RejectedLeftOut ==
    /\ cache_dir' # cache_dir
          => /\ cw.pc = "write"
             /\ web[cw.url].kind = "ok"
             /\ DOMAIN cache_dir' = DOMAIN cache_dir \cup {cw.url}
             /\ cache_dir'[cw.url] = web[cw.url].html
             /\ \A u \in DOMAIN cache_dir \ {cw.url} : cache_dir'[u] = cache_dir[u]
    /\ \A u \in DOMAIN web' :
          (web'[u].kind # "ok" /\ net'.gets[u] > 0) => u \notin OutUrls(cw'.out)
    /\ (cw'.call = cw.call /\ Len(cw'.frontier) > Len(cw.frontier))
          => /\ cw.pc = "links"
             /\ cw.out[Len(cw.out)] = [url |-> cw.url, html |-> cw.html]

\* C18 as stated: the above, a fetched page is put in out only when the
\* cache holds its html, and when the crawl returns every url of out has
\* a cache file.
C18_OutputIsCached ==
    [][ /\ RejectedLeftOut
        /\ (cw.pc = "add" /\ net.gets[cw.url] > 0)
              => (cw.url \in DOMAIN cache_dir /\ cache_dir[cw.url] = cw.html)
        /\ cw'.pc = "returned" => OutUrls(cw'.out) \subseteq DOMAIN cache_dir' ]_vars

\* C18 amended: the same of the pages whose cache file was written
\* without an exception.
C18_OutputIsCachedUnlessRaised ==
    [][ /\ RejectedLeftOut
        /\ (cw.pc = "add" /\ net.gets[cw.url] > 0 /\ cw.url \notin net.unwritten)
              => (cw.url \in DOMAIN cache_dir /\ cache_dir[cw.url] = cw.html)
        /\ cw'.pc = "returned"
              => OutUrls(cw'.out) \subseteq DOMAIN cache_dir' \cup net'.unwritten ]_vars

\* a page answered with another status or type, with a link on it, and a
\* fetched page are behind the crawl
C18_Witness ==
    /\ cw.pc = "returned" /\ cw.call = 1
    /\ \E u \in DOMAIN web :
         /\ web[u].kind = "rejected" /\ web[u].html.taken = 1
         /\ net.gets[u] = 1 /\ u \notin DOMAIN cache_dir
    /\ \E u \in OutUrls(cw.out) : net.gets[u] = 1 /\ u \in DOMAIN cache_dir

\* C19: a page GET is made only when the delay has passed since the page
\* GET before it in the same call, whatever its outcome was, and the
\* delay is made only after a page GET, not after a cache hit.
C19_DelayBetweenFetches ==
    [][ /\ net'.gets # net.gets /\ cw'.call = cw.call => ~net.pending
        /\ cw'.pc = "sleep" => net'.pending ]_vars

\* what C20 says of a page GET that raises and of the rest of the
\* frontier: the url is left out and the loop goes on with the frontier as
\* it was; the frontier loses nothing but its head, which the loop takes;
\* and the crawl returns with the frontier empty and no url whose GET
\* raised in out
ErrorSkipsOneUrl ==
    /\ (cw.pc = "fetch" /\ web'[cw.url].kind = "error")
          => (cw'.pc = "loop" /\ cw'.frontier = cw.frontier /\ cw'.out = cw.out)
    /\ (cw'.call = cw.call /\ Len(cw'.frontier) < Len(cw.frontier))
          => (cw.pc = "loop" /\ cw'.frontier = Tail(cw.frontier))
    /\ cw'.pc = "returned"
          => /\ cw'.frontier = <<>>
             /\ \A u \in DOMAIN web' :
                   (web'[u].kind = "error" /\ net'.gets[u] > 0)
                       => u \notin OutUrls(cw'.out)

\* the link discovery of the page under way raises before its last link
ParseRaises == cw.pc = "links" /\ cw.html.taken < Len(cw.html.links)

\* C20 as stated: the above; a page whose link discovery raises puts no
\* link on the frontier and the loop goes on; and every call returns.
C20_ErrorsSkipOnlyTheUrl ==
    /\ [][ /\ ErrorSkipsOneUrl
           /\ ParseRaises => (cw'.pc = "loop" /\ cw'.out = cw.out
                                /\ cw'.frontier = cw.frontier) ]_vars
    /\ (cw.pc # "returned") ~> (cw.pc = "returned")

\* C20 amended: a page whose link discovery raises puts on the frontier
\* the links taken before the exception, and no other.
C20_ErrorsSkipOnlyTheUrlAndLaterLinks ==
    /\ [][ /\ ErrorSkipsOneUrl
           /\ ParseRaises
                => /\ cw'.pc = "loop" /\ cw'.out = cw.out
                   /\ LET before == SelectSeq(SubSeq(cw.html.links, 1, cw.html.taken),
                                              OnHostAndPath)
                      IN /\ Len(cw'.frontier) = Len(cw.frontier) + Len(before)
                         /\ SubSeq(cw'.frontier, 1, Len(cw.frontier)) = cw.frontier
                         /\ \A k \in 1..Len(before) :
                               cw'.frontier[Len(cw.frontier) + k]
                                 = [url |-> before[k], depth |-> cw.depth + 1] ]_vars
    /\ (cw.pc # "returned") ~> (cw.pc = "returned")

\* the crawl has returned the start page alone: urljoin raised at its
\* second link, the GET of the first link raised, and the second link was
\* never asked for
C20_Witness ==
    /\ cw.pc = "returned" /\ cw.call = 1 /\ cw.args.max_depth >= 1
    /\ OutUrls(cw.out) = {UrlRoot}
    /\ cw.out[1].html = [links |-> <<UrlD, UrlDA>>, taken |-> 1]
    /\ UrlD \in DOMAIN web /\ web[UrlD].kind = "error" /\ net.gets[UrlD] = 1
    /\ net.gets[UrlDA] = 0 /\ UrlDA \notin net.reads

\* the url of the check_url_changes call the step makes
Checked == sc'.urls[sc'.i]

\* the step is a turn of the loop of scan_for_changes, and files the url
\* under list and under no other
Files(list) ==
    sc'.results = [sc.results EXCEPT ![list] = Append(@, Checked)]

\* the step is a turn of the loop for a url with a row in document_metadata
\* whose body was fetched
Refetched ==
    /\ sc'.i = sc.i + 1
    /\ Checked \in DOMAIN document_metadata
    /\ sc'.get.kind = "ok"

\* C21: when the body of a url with stored hash H is fetched again and
\* hashes to H, has_changed is false, whatever the headers are, the url
\* is filed as unchanged and the change log is left as it is.
C21_SameHashUnchanged ==
    [][ ( /\ Refetched
          /\ calculate_content_hash(sc'.get.content)
               = document_metadata[Checked].content_hash )
        => /\ sc'.change_info.has_changed = "False"
           /\ Files("unchanged")
           /\ change_log' = change_log ]_vars

\* ETag and Last-Modified both differ from the stored ones and the body,
\* not the stored one letter for letter, has the stored hash
C21_Witness ==
    /\ sc.i = 1 /\ sc.urls[1] \in DOMAIN document_metadata
    /\ sc.head.kind = "ok" /\ sc.get.kind = "ok"
    /\ sc.head.etag = {"2"} /\ document_metadata[sc.urls[1]].etag = {"1"}
    /\ sc.head.last_modified = {"2"}
    /\ document_metadata[sc.urls[1]].last_modified = {"1"}
    /\ sc.get.content = <<"A">>
    /\ sc.change_info.has_changed = "False"
    /\ sc.results.unchanged = <<sc.urls[1]>>
    /\ change_log = <<>>

\* C22: when the body of a url with stored hash H is fetched again and
\* hashes to another H2, has_changed is true and the change log grows by
\* one record, with old_hash H and new_hash H2.
C22_NewHashLogged ==
    [][ ( /\ Refetched
          /\ calculate_content_hash(sc'.get.content)
               # document_metadata[Checked].content_hash )
        => /\ sc'.change_info.has_changed = "True"
           /\ Len(change_log') = Len(change_log) + 1
           /\ SubSeq(change_log', 1, Len(change_log)) = change_log
           /\ LET record == change_log'[Len(change_log')] IN
              /\ record.url = Checked
              /\ record.old_hash = {document_metadata[Checked].content_hash}
              /\ record.new_hash = {calculate_content_hash(sc'.get.content)} ]_vars

C22_Witness ==
    /\ sc.pc = "returned" /\ Len(sc.urls) = 1
    /\ sc.results.updated = sc.urls
    /\ sc.change_info.has_changed = "True"
    /\ Len(change_log) = 1
    /\ change_log[1].url = sc.urls[1]
    /\ change_log[1].old_hash = {calculate_content_hash(<<"a">>)}
    /\ change_log[1].new_hash = {calculate_content_hash(<<>>)}

\* C23: every check that ends with has_changed true adds a record for its
\* url to the change log, of kind content or new, and the records there
\* stay as they are.
C23_EveryChangeLogged ==
    [][ /\ (sc'.i = sc.i + 1 /\ sc'.change_info.has_changed = "True")
             => /\ Len(change_log') = Len(change_log) + 1
                /\ change_log'[Len(change_log')].url = Checked
                /\ change_log'[Len(change_log')].change_type \in {"content", "new"}
        /\ IsPrefix(change_log, change_log') ]_vars

\* C24: a HEAD or GET that raises leaves has_changed unknown and an error
\* field in the result, every url of a scan is filed in one of the four
\* lists, and a url whose check raised is filed under errors.
C24_ErrorsFiledApart ==
    [][ sc'.i = sc.i + 1
        => /\ (sc'.head.kind = "error" \/ sc'.get.kind = "error")
                => /\ sc'.change_info.has_changed = "None"
                   /\ "error" \in DOMAIN sc'.change_info
           /\ \E list \in {"unchanged", "updated", "new", "errors"} : Files(list)
           /\ "error" \in DOMAIN sc'.change_info => Files("errors") ]_vars

\* the total of a category as C25 counts it: 10 for each of its keywords
\* in the file name, 5 when the extension is one of its extensions, 3 for
\* each of its keywords in the first 1000 characters
Total(category) ==
    LET config == categories[category]
        InName(p) == \E k \in 1..Len(dc.filepath.name) :
                        Substring(p, dc.filepath.name[k])
        InSample(p) == \E k \in 1..Len(dc.content) :
                          k <= SampleWords /\ Substring(p, dc.content[k])
    IN 10 * Cardinality({ p \in config.patterns : InName(p) })
         + 5 * Cardinality({dc.filepath.suffix} \cap config.extensions)
         + 3 * Cardinality({ p \in config.patterns : InSample(p) })

\* C25: the result is the general category with the sliding_window
\* strategy exactly when every category's total is below 5; otherwise it
\* is a category of the largest total, with its own strategy and size.
C25_GeneralBelowFloor ==
    dc.pc = "done" =>
      IF \A c \in Range(CategoryNames) : Total(c) < 5
      THEN dc.result.category = "general"
           /\ dc.result.chunk_strategy = "sliding_window"
      ELSE /\ dc.result.category \in Range(CategoryNames)
           /\ \A c \in Range(CategoryNames) : Total(c) <= Total(dc.result.category)
           /\ dc.result.chunk_strategy = categories[dc.result.category].chunk_strategy
           /\ dc.result.chunk_size = categories[dc.result.category].chunk_size

\* a document whose best total is 3, from one keyword in the sample, has
\* been categorized as general
C25_Witness ==
    /\ dc.pc = "done"
    /\ \A c \in Range(CategoryNames) : Total(c) <= 3
    /\ Total("technical") = 3
    /\ dc.result.category = "general"

\* the texts of a list of chunks
TextsOf(chunks) == [k \in 1..Len(chunks) |-> chunks[k].text]

\* content has nothing the strategy takes for a boundary
Markerless(strategy, content) ==
    CASE strategy = "section_aware" -> Range(content) \cap SectionMarkers = {}
      [] strategy = "message_boundary" -> Range(content) \cap MessageMarkers = {}
      [] OTHER -> TRUE

\* C26: for each of the seven strategies and a content without its
\* markers, chunk gives the chunks chunk_sliding_window gives; stated of
\* the texts of the chunks alone, which the claim implies.
C26_FallbackIsSlidingWindow ==
    ( /\ ck.pc = "done" /\ ck.fn = "chunk"
      /\ ck.strategy # "sliding_window"
      /\ Markerless(ck.strategy, ck.content) )
    => TextsOf(ck.result)
         = TextsOf(chunk_sliding_window(ck.content, ck.chunk_size, ck.overlap))

\* C27 as stated: a document of 50 words or fewer gets no chunk, from
\* _chunk and from chunk_sliding_window.
C27_FiftyWordsNoChunk ==
    (ck.pc = "done" /\ ck.fn \in {"_chunk", "chunk_sliding_window"}
       /\ Len(ck.content) <= 50)
    => ck.result = <<>>

\* C27 amended: _chunk gives no chunk exactly for a document of fewer
\* than 50 words, and chunk_sliding_window exactly for one of no word.
C27_UnderFiftyWordsNoChunk ==
    /\ (ck.pc = "done" /\ ck.fn = "_chunk")
          => (ck.result = <<>> <=> Len(ck.content) < 50)
    /\ (ck.pc = "done" /\ ck.fn = "chunk_sliding_window")
          => (ck.result = <<>> <=> Len(ck.content) = 0)

\* _chunk has returned no chunk for a document of 49 words, chunk size 800
C27_Witness ==
    /\ ck.pc = "done" /\ ck.fn = "_chunk"
    /\ Len(ck.content) = 49 /\ ck.chunk_size = 800
    /\ ck.result = <<>>

\* C28: whatever the two rankings are, the list search returns has no
\* chunk id twice and at most combine_top_k entries, and each entry is a
\* chunk of the snapshot, with its id and its document.
C28_FusionNoDuplicates ==
    sr.pc = "returned" =>
      /\ \A i, j \in 1..Len(sr.out) : i # j => sr.out[i].id # sr.out[j].id
      /\ Len(sr.out) <= sr.cfg.combine_top_k
      /\ \A i \in 1..Len(sr.out) :
           \E k \in 1..Min(SnapshotLimit, Len(chroma)) :
              /\ sr.out[i].id = chroma[k].id
              /\ sr.out[i].document = chroma[k].document

\* both rankers ranked the same chunk first and differ on the second: three
\* chunks come back, not four
C28_Witness ==
    /\ sr.pc = "returned" /\ Len(sr.docs) = 3
    /\ Len(sr.bm_idx) = 2 /\ Len(sr.em_idx) = 2
    /\ sr.bm_idx[1] = sr.em_idx[1] /\ sr.bm_idx[2] # sr.em_idx[2]
    /\ sr.cfg.combine_top_k = 3
    /\ Len(sr.out) = 3

\* C29: with an empty collection, or a snapshot without documents, search
\* returns the empty list and has called neither ranker and loaded no
\* embedder.
C29_EmptySnapshotNoRanking ==
    (sr.pc = "returned" /\ (Len(chroma) = 0 \/ sr.docs = <<>>))
       => (sr.out = <<>> /\ sr.calls = <<>>)

\* the collection has documents and the snapshot has none
C29_Witness ==
    /\ sr.pc = "returned" /\ sr.count > 0 /\ sr.docs = <<>>
    /\ sr.out = <<>> /\ sr.calls = <<>>

\* C30: every value of every metadata map handed to upsert is a string, a
\* number or a boolean; a key whose extracted value is None is not in the
\* map, and a key whose extracted or chunk value is a list or a dict
\* holds a string.
C30_UpsertedMetadataPrimitive ==
    \A n \in 1..Len(im.upserted) :
       LET m == im.upserted[n]
           chunk_data == im.chunks[n]
       IN /\ \A key \in DOMAIN m : m[key].t \in {"str", "int", "float", "bool"}
          /\ \A key \in DOMAIN im.metadata :
               /\ im.metadata[key].t = "NoneType" => key \notin DOMAIN m
               /\ im.metadata[key].t \in {"list", "dict"} => m[key].t = "str"
          /\ \A key \in ChunkKeys \cap DOMAIN chunk_data :
               /\ chunk_data[key].t = "NoneType" => key \notin DOMAIN m
               /\ chunk_data[key].t \in {"list", "dict"} => m[key].t = "str"

\* an upserted map whose extracted version was a list of strings and
\* whose chunk had a speakers list with a number in it
C30_Witness ==
    /\ Len(im.upserted) = 1
    /\ "version" \in DOMAIN im.metadata
    /\ im.metadata["version"].t = "list"
    /\ \A k \in 1..Len(im.metadata["version"].v) : im.metadata["version"].v[k].t = "str"
    /\ "speakers" \in DOMAIN im.chunks[1]
    /\ im.chunks[1]["speakers"].t = "list"
    /\ \E k \in 1..Len(im.chunks[1]["speakers"].v) : im.chunks[1]["speakers"].v[k].t = "int"
    /\ im.upserted[1]["version"] = Str(<<"a", ", ", "b">>)
    /\ im.upserted[1]["speakers"] = Str(<<"a", ", ", "1">>)

RECURSIVE ReachedIn(_, _)
\* the urls a chain of at most n links leads to from the start url, each
\* link on a page of out
ReachedIn(n, out) ==
    IF n = 0 THEN {cw.args.start_url}
    ELSE LET before == ReachedIn(n - 1, out)
         IN before \cup UNION { Range(out[k].html.links) :
                                  k \in { j \in 1..Len(out) : out[j].url \in before } }

\* the frontier has grown by links of the page just added to out
FrontierGrowsFromOutput ==
    Len(cw'.frontier) > Len(cw.frontier) /\ cw.pc # "returned" =>
      /\ cw.pc = "links"
      /\ cw.depth < cw.args.max_depth
      /\ \E k \in 1..Len(cw.out) :
           /\ cw.out[k].url = cw.url
           /\ \A j \in (Len(cw.frontier) + 1)..Len(cw'.frontier) :
                /\ cw'.frontier[j].url \in Range(cw.out[k].html.links)
                /\ cw'.frontier[j].depth = cw.depth + 1

\* C31: every url of crawl_website's output is reached from start_url by
\* at most max_depth links, each on a page of the output; the frontier
\* grows only by the links of a page that has just been added to the
\* output at a depth below max_depth, so the links of a page at max_depth
\* and of a rejected or skipped page are never enqueued.
C31_OutputWithinDepth ==
    /\ [](cw.pc # "none" =>
            /\ OutUrls(cw.out) \subseteq ReachedIn(cw.args.max_depth, cw.out)
            /\ \A k \in 1..Len(cw.frontier) : cw.frontier[k].depth <= cw.args.max_depth)
    /\ [][FrontierGrowsFromOutput]_vars

\* with max_depth 1 the start page and the page it links to are returned;
\* the link of the second page is on no frontier and was asked of nobody
C31_Witness ==
    /\ cw.pc = "returned" /\ cw.call = 1 /\ cw.args.max_depth = 1
    /\ cw.args.start_url = UrlRoot
    /\ OutUrls(cw.out) = {UrlRoot, UrlD}
    /\ \E k \in 1..Len(cw.out) :
         cw.out[k].url = UrlD /\ cw.out[k].html.links = <<UrlDA>>
    /\ UrlDA \notin Touched

\* C33: robots.txt is asked for at most once per host, also when two
\* worker threads crawl the same host at the same time.
C33_RobotsOncePerHost ==
    \A h \in RobotHosts : rt.requests[h] <= 1

\* the ids of the chunks at the positions idx of the snapshot
IdsAt(idx) == [k \in 1..Len(idx) |-> sr.ids[idx[k]]]

\* C32: search returns the lexical top-K in lexical order, then the
\* semantic top-K that are not among them in semantic order, cut at
\* combine_top_k.
C32_LexicalFirstThenSemantic ==
    (sr.pc = "returned" /\ sr.docs # <<>>) =>
       LET both == IdsAt(sr.bm_idx) \o
                     SelectSeq(IdsAt(sr.em_idx),
                               LAMBDA id : id \notin Range(IdsAt(sr.bm_idx)))
       IN [k \in 1..Len(sr.out) |-> sr.out[k].id]
            = SubSeq(both, 1, Min(sr.cfg.combine_top_k, Len(both)))

\* chunk 1 is second for BM25 and first for the embedder and comes back
\* second; chunk 3, ranked by the embedder only, comes back last
C32_Witness ==
    /\ sr.pc = "returned"
    /\ sr.bm_idx = <<2, 1>> /\ sr.em_idx = <<1, 3>>
    /\ sr.cfg.combine_top_k = 3
    /\ [k \in 1..Len(sr.out) |-> sr.out[k].id] = <<2, 1, 3>>

\* the step in which the worker of t finds the dimensions to differ
MismatchDetected(t) ==
    /\ worker[t].pc = "dimcheck"
    /\ Len(tasks'[t].warnings) > Len(tasks[t].warnings)
    /\ tasks'[t].warnings[Len(tasks[t].warnings) + 1] = "Embedding dimension mismatch"

\* the step is not fatal: no FAILED, no error entry, SCANNING comes next
GoesOnToScanning(t) ==
    /\ tasks'[t].status = "PREPARING"
    /\ tasks'[t].errors = tasks[t].errors
    /\ worker'[t].pc = "set_scanning"

\* C34 as stated: a detected mismatch is not fatal, and the collection is
\* deleted and created again empty, with warnings.
C34_MismatchResets ==
    [][\A t \in DOMAIN worker :
         MismatchDetected(t) =>
           /\ GoesOnToScanning(t)
           /\ coll'[tasks[t].profile_name] = EmptyColl
           /\ hist'[t].deletes = hist[t].deletes + 1
           /\ Len(tasks'[t].warnings) = Len(tasks[t].warnings) + 3]_vars

\* C34: no step of the dimension check is fatal, a raising one included;
\* after a detected mismatch the collection is deleted and created again
\* empty with three warnings, unless the deletion or the creation raises:
\* then there are two warnings and the collection is as the call left it.
C34_MismatchResetsUnlessRaised ==
    [][\A t \in DOMAIN worker :
         /\ (worker[t].pc = "dimcheck" /\ worker'[t] # worker[t])
               => GoesOnToScanning(t)
         /\ MismatchDetected(t) =>
              LET p == tasks[t].profile_name
                  n == Len(tasks'[t].warnings) - Len(tasks[t].warnings)
              IN \/ n = 3 /\ coll'[p] = EmptyColl /\ hist'[t].deletes = hist[t].deletes + 1
                 \/ n = 2 /\ coll'[p] \in {coll[p], EmptyColl}]_vars

\* the collection of the other dimension is gone, the three warnings are
\* there, and the task is scanning without an error
C34_Witness ==
    /\ tasks[1].status = "SCANNING" /\ tasks[1].errors = <<>>
    /\ Len(tasks[1].warnings) = 3
    /\ tasks[1].warnings[1] = "Embedding dimension mismatch"
    /\ hist[1].deletes = 1
    /\ coll[tasks[1].profile_name] = EmptyColl
    /\ worker[1].config.dim # OldColl.dim

\* C35: the task started by start_ingestion reaches COMPLETED, FAILED or
\* CANCELLED, whatever cancel_task calls are made, and from then on every
\* status read reports a terminal status.
C35_EveryTaskEnds ==
    <>[](/\ get_task_status(1).found
         /\ get_task_status(1).dict.status \in Terminal)

\* the worker has finished after a cancellation during PROCESSING, and
\* the status read says cancelled
C35_Witness ==
    /\ worker[1].pc = "done"
    /\ hist[1].cancelled_in = {"PROCESSING"}
    /\ get_task_status(1).dict.status = "CANCELLED"

\* a step of cancel_task: the worker's steps all change worker, the
\* handler never does
CancelStep == worker' = worker /\ ret'.op = "cancel_task"

\* True only for a registered task that is SCANNING, PROCESSING or
\* INDEXING, whose flag is then set; False changes no task
CancelAnswer ==
    CancelStep =>
      IF ret'.ok
      THEN /\ ret'.id \in DOMAIN tasks
           /\ tasks[ret'.id].status \in Cancellable
           /\ tasks' = [tasks EXCEPT ![ret'.id].cancel_requested = TRUE]
      ELSE /\ tasks' = tasks
           /\ ret'.id \in DOMAIN tasks => tasks[ret'.id].status \notin Cancellable

\* the worker of t is at one of the cancellation checks of lines 244, 254,
\* 367 and 378
AtCheck(t) ==
    \/ worker[t].pc \in {"check_scan", "check_proc"}
    \/ worker[t].pc = "next_item" /\ worker[t].i < Len(worker[t].all_files)
    \/ worker[t].pc = "next_batch" /\ worker[t].b < ChunkLen(worker[t].all_chunks)

C37_TerminalHasEndTime ==
    \A t \in DOMAIN tasks :
       LET snapshot == get_task_status(t).dict IN
       /\ (worker[t].pc = "done" /\ snapshot.status \in Terminal)
             => (snapshot.end_time # "None" /\ snapshot.duration # "None")
       /\ snapshot.status = "COMPLETED" => snapshot.progress = 1000

\* C38: in every state of a task processed_files is between 0 and
\* total_files and indexed_chunks between 0 and total_chunks, and in
\* COMPLETED both pairs are equal.
C38_CountersWithinTotals ==
    \A t \in DOMAIN tasks :
       /\ 0 <= tasks[t].processed_files /\ tasks[t].processed_files <= tasks[t].total_files
       /\ 0 <= tasks[t].indexed_chunks /\ tasks[t].indexed_chunks <= tasks[t].total_chunks
       /\ tasks[t].status = "COMPLETED" =>
            /\ tasks[t].processed_files = tasks[t].total_files
            /\ tasks[t].indexed_chunks = tasks[t].total_chunks

\* the chunks of url among ids
ChunksOf(url, ids) == { c \in ids : c[1] = url }

UpdateReturned == up.pc \in {"returned", "rescan"} /\ up.change_results # NoResults

\* C39: when update_only_changed has returned, a url of the updated list
\* whose processing failed and is recorded in the errors of the stats has
\* the chunks in the index that it had before the call, and the chunks of
\* the urls that are not in the updated list are those of before the call
C39_FailedUpdateKeepsChunks ==
    UpdateReturned =>
        \A url \in ScanUrls :
           IF url \in Range(up.change_results.updated)
           THEN (\E k \in DOMAIN up.stats.errors : up.stats.errors[k][1] = url)
                   => ChunksOf(url, up.index) = ChunksOf(url, up.held)
           ELSE ChunksOf(url, up.index) = ChunksOf(url, up.held)

\* C40: when the scan after update_only_changed has returned, every url
\* that the first scan filed as new or updated is filed as unchanged, has a
\* row in document_metadata, and, filed as updated, has the hash of the
\* site's content in its row
C40_SecondScanUnchanged ==
    (up.pc = "rescan" /\ sc.pc = "returned") =>
        \A url \in Range(up.change_results.updated) \cup Range(up.change_results.new) :
           /\ url \in Range(sc.results.unchanged)
           /\ url \in DOMAIN document_metadata
           /\ url \in Range(up.change_results.updated) =>
                document_metadata[url].content_hash =
                    calculate_content_hash(up.site[url].get.content)

=============================================================================
